---- MODULE Spec2Model ----
(***************************************************************************)
(* hypnofunk: sleep-architecture metrics computed from a hypnogram, a      *)
(* per-epoch sequence of stage labels.  The library is a set of pure       *)
(* functions; each is an operator here, computed the way the Python code   *)
(* computes it, and each call is an action that takes the caller's         *)
(* hypnogram and parameter and leaves the outcome (a returned value or a   *)
(* raised ValueError) in ret.                                              *)
(*                                                                         *)
(* Python indices are 0-based and are kept 0-based in every result; At and *)
(* PySlice translate them to the 1-based sequences of TLA+.                *)
(***************************************************************************)
EXTENDS Integers, Sequences, FiniteSets, TLC

VARIABLES
    hypnogram,  \* the caller's input sequence
    op,         \* the function called last ("none" before any call)
    arg,        \* its integer parameter (max_wake_epochs / min_*_epochs)
    opts,       \* the other parameters of the call and its environment
    ret,        \* outcome of the last call
    prev,       \* outcome of the call before it, when calls are chained
    \* the globals of examples/polyman_analysis.py (its current hypnogram
    \* is the variable hypnogram above)
    pc,           \* where the script is
    filelist,     \* the files glob found, in the order it returned them
    file_no,      \* the loop counter of enumerate(filelist, start=1)
    sleep_params, \* the last result of hypnoman
    trans_params, \* the last result of analyze_transitions
    masterlist,   \* one merged row per file processed so far
    printed,      \* the lines written to standard output
    master_df     \* the rows written to the master spreadsheet

script == <<pc, filelist, file_no, sleep_params, trans_params, masterlist,
            printed, master_df>>

vars == <<hypnogram, op, arg, opts, ret, prev, script>>

----------------------------------------------------------------------------
(* Bounds of the model *)

MaxLen == 5        \* longest enumerated hypnogram over the stage vocabulary
MaxBadLen == 3     \* longest enumerated sequence that may hold unknown labels
MaxParam == 3      \* largest enumerated threshold parameter
MaxFiles == 3      \* most files the batch script finds
MaxCallerLen == 2  \* longest enumerated hypnogram of a caller that calls again

----------------------------------------------------------------------------
(* utils.py: constants *)

STAGE_LABELS == <<"W", "N1", "N2", "N3", "R">>
STAGE_CODES == <<0, 1, 2, 3, 4>>

DEFAULT_EPOCH_DURATION == 30
DEFAULT_MAX_WAKE_EPOCHS == 10
DEFAULT_MIN_NREM_EPOCHS == 30
DEFAULT_MIN_REM_EPOCHS == 10

STAGE_LABEL_TO_CODE ==
    [l \in {"W", "N1", "N2", "N3", "R"} |->
        CASE l = "W" -> 0
          [] l = "N1" -> 1
          [] l = "N2" -> 2
          [] l = "N3" -> 3
          [] l = "R" -> 4]

\* set(STAGE_LABELS)
StageSet == {STAGE_LABELS[k] : k \in 1..Len(STAGE_LABELS)}

\* labels outside the vocabulary, as the tests feed them to validate_hypnogram
BadLabels == {"ZZZ", "UNKNOWN"}

----------------------------------------------------------------------------
(* Python list primitives *)

Min2(a, b) == IF a <= b THEN a ELSE b
Max2(a, b) == IF a >= b THEN a ELSE b

\* seq[k] for an in-range 0-based index k
At(seq, k) == seq[k + 1]

\* a slice bound as Python normalises it: negative counts from the end,
\* then clamped to 0..len
PyBound(n, a) == IF a < 0 THEN Max2(n + a, 0) ELSE Min2(a, n)

\* seq[a:b]
PySlice(seq, a, b) ==
    LET lo == PyBound(Len(seq), a)
        hi == PyBound(Len(seq), b)
    IN  IF lo >= hi THEN <<>> ELSE SubSeq(seq, lo + 1, hi)

\* set(seq)
PySet(seq) == {seq[k] : k \in 1..Len(seq)}

\* [x] * n
Rep(x, n) == [k \in 1..n |-> x]

\* F applied to the value of v, with v evaluated before F is entered: two
\* statements in sequence
Then(v, F(_)) == CHOOSE r \in {F(x) : x \in {v}} : TRUE

\* outcome of a call: a returned value, or a raised exception
Return(v) == [raised |-> FALSE, value |-> v]
RaiseValueError(msg, labels) ==
    [raised |-> TRUE, error |-> "ValueError", message |-> msg,
     invalid_stages |-> labels]
\* seq[k] with k outside 0..len-1 (negative k is never produced by the code)
RaiseIndexError ==
    [raised |-> TRUE, error |-> "IndexError",
     message |-> "list index out of range", invalid_stages |-> {}]

NoRet == [raised |-> FALSE, value |-> <<>>]

\* hypnoman's keyword parameters, and whether antropy could be imported
Opts(epoch_duration, trim_wake, has_antropy) ==
    [epoch_duration |-> epoch_duration, trim_wake |-> trim_wake,
     HAS_ANTROPY |-> has_antropy]

NoOpts == Opts(DEFAULT_EPOCH_DURATION, TRUE, FALSE)

----------------------------------------------------------------------------
(* utils.py: validate_hypnogram *)

\* a lenient variant: unknown labels are dropped instead of rejected
validate_hypnogram_coerce(hyp) ==
    LET hyp_list == SelectSeq(hyp, LAMBDA l : l \in StageSet)
    IN  IF Len(hyp_list) = 0
        THEN RaiseValueError("Hypnogram cannot be empty", {})
        ELSE Return(hyp_list)

validate_hypnogram(hyp) ==
    LET hyp_list == hyp
        invalid_stages == PySet(hyp_list) \ StageSet
    IN  IF Len(hyp_list) = 0
        THEN RaiseValueError("Hypnogram cannot be empty", {})
        ELSE IF invalid_stages # {}
        THEN RaiseValueError("Invalid stage labels found", invalid_stages)
        ELSE Return(hyp_list)

----------------------------------------------------------------------------
(* Inputs *)

SeqsUpTo(S, n) == UNION {[1..k -> S] : k \in 0..n}

\* hypnograms the documentation and the tests use
Examples ==
    { Rep("W", 20),
      <<"W", "N2">> \o Rep("N2", 30) \o <<"R", "W">>,
      Rep("N2", 30) \o Rep("R", 5) \o Rep("N2", 10) \o Rep("R", 12),
      <<"N2", "N2", "R", "W", "W", "W", "W", "W">>,
      Rep("W", 10) \o Rep("N2", 50) \o Rep("N3", 30) \o Rep("R", 20)
            \o Rep("W", 5),
      <<"W", "W", "N2", "N2", "R", "W">>,
      Rep("N2", 20) \o Rep("R", 10),
      Rep("W", 5) \o Rep("N2", 30) \o Rep("R", 15) \o Rep("W", 5) }

Inputs ==
    SeqsUpTo(StageSet, MaxLen) \cup SeqsUpTo(StageSet \cup BadLabels, MaxBadLen)
        \cup Examples

\* the batch script is not running
NoScript ==
    /\ pc = "none"
    /\ filelist = <<>>
    /\ file_no = 0
    /\ sleep_params = <<>>
    /\ trans_params = <<>>
    /\ masterlist = <<>>
    /\ printed = <<>>
    /\ master_df = <<>>

Init ==
    /\ hypnogram \in Inputs
    /\ op = "none"
    /\ arg = 0
    /\ opts = NoOpts
    /\ ret = NoRet
    /\ prev = NoRet
    /\ NoScript

CallValidate ==
    /\ op = "none"
    /\ op' = "validate_hypnogram"
    /\ ret' = validate_hypnogram(hypnogram)
    /\ UNCHANGED <<hypnogram, arg, opts, prev, script>>

SpecValidate == Init /\ [][CallValidate]_vars

----------------------------------------------------------------------------
(* utils.py: rle_encode *)

\* the body of "for symbol in sequence[1:]" for the element at 0-based
\* position k
RleIter(sequence, k, st) ==
    IF At(sequence, k) = st.current_symbol
    THEN [st EXCEPT !.current_count = @ + 1]
    ELSE [symbols |-> Append(st.symbols, st.current_symbol),
          lengths |-> Append(st.lengths, st.current_count),
          current_symbol |-> At(sequence, k),
          current_count |-> 1]

\* the iterations of the for loop for the positions lo..hi-1, in order
\* (split in halves, which keeps the evaluation shallow)
RECURSIVE RleLoop(_, _, _, _)
RleLoop(sequence, lo, hi, st) ==
    IF lo >= hi
    THEN st
    ELSE IF hi = lo + 1
    THEN RleIter(sequence, lo, st)
    ELSE Then(RleLoop(sequence, lo, (lo + hi) \div 2, st),
              LAMBDA mid : RleLoop(sequence, (lo + hi) \div 2, hi, mid))

\* the state before the loop: current_symbol = sequence[0], current_count = 1
RleInit(sequence) ==
    [symbols |-> <<>>, lengths |-> <<>>,
     current_symbol |-> At(sequence, 0), current_count |-> 1]

\* a variant that forgets to store the last run
rle_encode_no_last(sequence) ==
    IF Len(sequence) = 0
    THEN [symbols |-> <<>>, lengths |-> <<>>]
    ELSE LET st == RleLoop(sequence, 1, Len(sequence), RleInit(sequence))
         IN  [symbols |-> st.symbols, lengths |-> st.lengths]

\* a variant that never merges equal neighbours: one run per element
rle_encode_no_merge(sequence) ==
    [symbols |-> sequence, lengths |-> [k \in 1..Len(sequence) |-> 1]]

rle_encode(sequence) ==
    IF Len(sequence) = 0
    THEN [symbols |-> <<>>, lengths |-> <<>>]
    ELSE LET st == RleLoop(sequence, 1, Len(sequence), RleInit(sequence))
         IN  [symbols |-> Append(st.symbols, st.current_symbol),
              lengths |-> Append(st.lengths, st.current_count)]

CallRle ==
    /\ op = "none"
    /\ op' = "rle_encode"
    /\ ret' = Return(rle_encode(hypnogram))
    /\ UNCHANGED <<hypnogram, arg, opts, prev, script>>

SpecRle == Init /\ [][CallRle]_vars

----------------------------------------------------------------------------
(* core.py: trim_terminal_wake *)

\* the body of "for stage in reversed(hyp)" for the element at 0-based
\* position k; once the loop has met another label (break) nothing changes
TrailIter(hyp, k, st) ==
    IF st.broken
    THEN st
    ELSE IF At(hyp, k) = "W"
    THEN [st EXCEPT !.trailing_wake = @ + 1]
    ELSE [st EXCEPT !.broken = TRUE]

\* the iterations for the positions hi-1 down to lo, in that order
RECURSIVE TrailLoop(_, _, _, _)
TrailLoop(hyp, lo, hi, st) ==
    IF lo >= hi
    THEN st
    ELSE IF hi = lo + 1
    THEN TrailIter(hyp, lo, st)
    ELSE Then(TrailLoop(hyp, (lo + hi) \div 2, hi, st),
              LAMBDA mid : TrailLoop(hyp, lo, (lo + hi) \div 2, mid))

TrailingWake(hyp) ==
    TrailLoop(hyp, 0, Len(hyp),
              [trailing_wake |-> 0, broken |-> FALSE]).trailing_wake

\* a variant that cuts the whole trailing wake run once it exceeds the limit
trim_terminal_wake_cut_all(hypnogram_, max_wake_epochs) ==
    LET v == validate_hypnogram(hypnogram_)
    IN  IF v.raised
        THEN v
        ELSE LET hyp == v.value
                 trailing_wake == TrailingWake(hyp)
             IN  IF trailing_wake > max_wake_epochs
                 THEN Return(PySlice(hyp, 0, Len(hyp) - trailing_wake))
                 ELSE Return(hyp)

trim_terminal_wake(hypnogram_, max_wake_epochs) ==
    LET v == validate_hypnogram(hypnogram_)
    IN  IF v.raised
        THEN v
        ELSE LET hyp == v.value
                 trailing_wake == TrailingWake(hyp)
             IN  IF trailing_wake > max_wake_epochs
                 THEN LET cut_idx ==
                              Len(hyp) - (trailing_wake - max_wake_epochs)
                      IN  Return(PySlice(hyp, 0, cut_idx))
                 ELSE Return(hyp)

\* thresholds a caller passes: small ones and the default
WakeParams == 0..MaxParam \cup {DEFAULT_MAX_WAKE_EPOCHS}

CallTrim(m) ==
    /\ op = "none"
    /\ op' = "trim_terminal_wake"
    /\ arg' = m
    /\ ret' = trim_terminal_wake(hypnogram, m)
    /\ UNCHANGED <<hypnogram, opts, prev, script>>

\* the caller trims the list it got back, with the same threshold
CallTrimAgain ==
    /\ op = "trim_terminal_wake"
    /\ ~ret.raised
    /\ op' = "trim_terminal_wake_twice"
    /\ prev' = ret
    /\ ret' = trim_terminal_wake(ret.value, arg)
    /\ UNCHANGED <<hypnogram, arg, opts, script>>

NextTrim ==
    \/ \E m \in WakeParams : CallTrim(m)
    \/ CallTrimAgain

SpecTrim == Init /\ [][NextTrim]_vars

----------------------------------------------------------------------------
(* core.py: find_nremstretches and find_rem_stretches *)

NREM == {"N1", "N2", "N3"}

\* one test of "while j < n and seq[j] in S: j += 1"; j stays once the
\* condition has failed
ExtendStep(seq, j, S) ==
    IF j < Len(seq) /\ At(seq, j) \in S THEN j + 1 ELSE j

\* the loop tested `fuel` times
RECURSIVE ExtendLoop(_, _, _, _)
ExtendLoop(seq, j, S, fuel) ==
    IF fuel <= 0
    THEN j
    ELSE IF fuel = 1
    THEN ExtendStep(seq, j, S)
    ELSE Then(ExtendLoop(seq, j, S, fuel \div 2),
              LAMBDA mid : ExtendLoop(seq, mid, S, fuel - (fuel \div 2)))

\* the loop run to its end: j grows by one per iteration and stops at n at
\* the latest, so len(seq) tests are enough
ExtendWhile(seq, j, S) == ExtendLoop(seq, j, S, Len(seq))

\* all(s in S for s in seq[a:b])
AllIn(seq, a, b, S) == \A s \in PySet(PySlice(seq, a, b)) : s \in S

\* the scan state at the loop head
ScanInit ==
    [i |-> 0, stretches |-> <<>>, indices |-> <<>>, first_r_found |-> FALSE,
     raised |-> FALSE]

\* the outcome of a scan: the loop has ended, has raised, or is still
\* running after more iterations than the hypnogram has positions
ScanResult(st, running) ==
    IF st.raised
    THEN RaiseIndexError
    ELSE IF running
    THEN [raised |-> TRUE, error |-> "NoReturn",
          message |-> "the loop does not end", invalid_stages |-> {}]
    ELSE Return([stretches |-> st.stretches, indices |-> st.indices])

\* a variant that accepts the window alone and does not extend the stretch
NremIter_no_extend(seq, min_nrem_epochs, st) ==
    LET i == st.i
    IN  IF i >= Len(seq)
        THEN [st EXCEPT !.raised = TRUE]
        ELSE IF At(seq, i) = "N2" /\ AllIn(seq, i, i + min_nrem_epochs, NREM)
        THEN LET j == i + min_nrem_epochs
             IN  [st EXCEPT !.i = Max2(j, i + 1),
                            !.stretches = Append(@, PySlice(seq, i, j)),
                            !.indices = Append(@, <<i, j - 1>>)]
        ELSE [st EXCEPT !.i = i + 1]

\* a variant that resumes one epoch after the start of an accepted stretch
NremIter_no_skip(seq, min_nrem_epochs, st) ==
    LET i == st.i
    IN  IF i >= Len(seq)
        THEN [st EXCEPT !.raised = TRUE]
        ELSE IF At(seq, i) = "N2" /\ AllIn(seq, i, i + min_nrem_epochs, NREM)
        THEN LET j == ExtendWhile(seq, i + min_nrem_epochs, NREM)
             IN  [st EXCEPT !.i = i + 1,
                            !.stretches = Append(@, PySlice(seq, i, j)),
                            !.indices = Append(@, <<i, j - 1>>)]
        ELSE [st EXCEPT !.i = i + 1]

\* one iteration of the while loop of find_nremstretches; reading seq[i]
\* with i = len(seq) raises IndexError
NremIter(seq, min_nrem_epochs, st) ==
    LET i == st.i
    IN  IF i >= Len(seq)
        THEN [st EXCEPT !.raised = TRUE]
        ELSE IF At(seq, i) = "N2" /\ AllIn(seq, i, i + min_nrem_epochs, NREM)
        THEN LET j == ExtendWhile(seq, i + min_nrem_epochs, NREM)
             IN  [st EXCEPT !.i = j,
                            !.stretches = Append(@, PySlice(seq, i, j)),
                            !.indices = Append(@, <<i, j - 1>>)]
        ELSE [st EXCEPT !.i = i + 1]

\* a loop condition that stops one index early
NremCond_strict(seq, min_nrem_epochs, st) ==
    ~st.raised /\ st.i < Len(seq) - min_nrem_epochs

\* the loop condition of find_nremstretches
NremCond(seq, min_nrem_epochs, st) ==
    ~st.raised /\ st.i <= Len(seq) - min_nrem_epochs

\* one test of "while i <= n - min_nrem_epochs" followed, if it holds, by
\* the loop body
NremStep(seq, min_nrem_epochs, st) ==
    IF NremCond(seq, min_nrem_epochs, st)
    THEN NremIter(seq, min_nrem_epochs, st)
    ELSE st

\* the loop tested `fuel` times
RECURSIVE NremLoop(_, _, _, _)
NremLoop(seq, min_nrem_epochs, st, fuel) ==
    IF fuel <= 0
    THEN st
    ELSE IF fuel = 1
    THEN NremStep(seq, min_nrem_epochs, st)
    ELSE Then(NremLoop(seq, min_nrem_epochs, st, fuel \div 2),
              LAMBDA mid : NremLoop(seq, min_nrem_epochs, mid,
                                    fuel - (fuel \div 2)))

find_nremstretches(sequence, min_nrem_epochs) ==
    LET v == validate_hypnogram(sequence)
    IN  IF v.raised
        THEN v
        ELSE LET st == NremLoop(v.value, min_nrem_epochs, ScanInit,
                                Len(v.value) + 1)
             IN  ScanResult(st, NremCond(v.value, min_nrem_epochs, st))

\* a variant that never records that the first REM period was seen
RemIter_no_flag(seq, min_rem_epochs, st) ==
    LET i == st.i
    IN  IF At(seq, i) = "R"
        THEN LET j == ExtendWhile(seq, i + 1, {"R"})
             IN  [st EXCEPT !.i = j,
                            !.stretches = Append(@, PySlice(seq, i, j)),
                            !.indices = Append(@, <<i, j - 1>>)]
        ELSE [st EXCEPT !.i = i + 1]

\* a variant that resumes the scan on the last epoch of the first REM period
RemIter_step_back(seq, min_rem_epochs, st) ==
    LET i == st.i
        n == Len(seq)
    IN  IF At(seq, i) = "R"
        THEN IF ~st.first_r_found
             THEN LET j == ExtendWhile(seq, i + 1, {"R"})
                  IN  [st EXCEPT !.first_r_found = TRUE,
                                 !.i = Max2(j - 1, i + 1),
                                 !.stretches = Append(@, PySlice(seq, i, j)),
                                 !.indices = Append(@, <<i, j - 1>>)]
             ELSE IF /\ i + min_rem_epochs <= n
                     /\ AllIn(seq, i, i + min_rem_epochs, {"R"})
             THEN LET j == ExtendWhile(seq, i + min_rem_epochs, {"R"})
                  IN  [st EXCEPT !.i = j,
                                 !.stretches = Append(@, PySlice(seq, i, j)),
                                 !.indices = Append(@, <<i, j - 1>>)]
             ELSE [st EXCEPT !.i = i + 1]
        ELSE [st EXCEPT !.i = i + 1]

\* one iteration of the while loop of find_rem_stretches (i < n holds)
RemIter(seq, min_rem_epochs, st) ==
    LET i == st.i
        n == Len(seq)
    IN  IF At(seq, i) = "R"
        THEN IF ~st.first_r_found
             THEN LET j == ExtendWhile(seq, i + 1, {"R"})
                  IN  [st EXCEPT !.first_r_found = TRUE,
                                 !.i = j,
                                 !.stretches = Append(@, PySlice(seq, i, j)),
                                 !.indices = Append(@, <<i, j - 1>>)]
             ELSE IF /\ i + min_rem_epochs <= n
                     /\ AllIn(seq, i, i + min_rem_epochs, {"R"})
             THEN LET j == ExtendWhile(seq, i + min_rem_epochs, {"R"})
                  IN  [st EXCEPT !.i = j,
                                 !.stretches = Append(@, PySlice(seq, i, j)),
                                 !.indices = Append(@, <<i, j - 1>>)]
             ELSE [st EXCEPT !.i = i + 1]
        ELSE [st EXCEPT !.i = i + 1]

\* the loop condition of find_rem_stretches
RemCond(seq, st) == st.i < Len(seq)

\* one test of "while i < n" followed, if it holds, by the loop body
RemStep(seq, min_rem_epochs, st) ==
    IF RemCond(seq, st) THEN RemIter(seq, min_rem_epochs, st) ELSE st

\* the loop tested `fuel` times
RECURSIVE RemLoop(_, _, _, _)
RemLoop(seq, min_rem_epochs, st, fuel) ==
    IF fuel <= 0
    THEN st
    ELSE IF fuel = 1
    THEN RemStep(seq, min_rem_epochs, st)
    ELSE Then(RemLoop(seq, min_rem_epochs, st, fuel \div 2),
              LAMBDA mid : RemLoop(seq, min_rem_epochs, mid,
                                   fuel - (fuel \div 2)))

find_rem_stretches(sequence, min_rem_epochs) ==
    LET v == validate_hypnogram(sequence)
    IN  IF v.raised
        THEN v
        ELSE LET st == RemLoop(v.value, min_rem_epochs, ScanInit,
                               Len(v.value) + 1)
             IN  ScanResult(st, RemCond(v.value, st))

NremParams == 0..MaxParam \cup {DEFAULT_MIN_NREM_EPOCHS}
RemParams == 0..MaxParam \cup {DEFAULT_MIN_REM_EPOCHS}

CallFindNrem(m) ==
    /\ op = "none"
    /\ op' = "find_nremstretches"
    /\ arg' = m
    /\ ret' = find_nremstretches(hypnogram, m)
    /\ UNCHANGED <<hypnogram, opts, prev, script>>

CallFindRem(m) ==
    /\ op = "none"
    /\ op' = "find_rem_stretches"
    /\ arg' = m
    /\ ret' = find_rem_stretches(hypnogram, m)
    /\ UNCHANGED <<hypnogram, opts, prev, script>>

NextCycle ==
    \/ \E m \in NremParams : CallFindNrem(m)
    \/ \E m \in RemParams : CallFindRem(m)

SpecCycle == Init /\ [][NextCycle]_vars

----------------------------------------------------------------------------
(* utils.py: convert_to_numeric *)

convert_to_numeric(hypnogram_) ==
    LET v == validate_hypnogram(hypnogram_)
    IN  IF v.raised
        THEN v
        ELSE Return([k \in 1..Len(v.value) |->
                        STAGE_LABEL_TO_CODE[v.value[k]]])

\* {v: k for k, v in STAGE_LABEL_TO_CODE.items()}: for each code the last
\* label, in insertion order, that maps to it
STAGE_CODE_TO_LABEL ==
    [c \in {STAGE_LABEL_TO_CODE[l] : l \in DOMAIN STAGE_LABEL_TO_CODE} |->
        LET ks == {k \in 1..Len(STAGE_LABELS) :
                        STAGE_LABEL_TO_CODE[STAGE_LABELS[k]] = c}
        IN  STAGE_LABELS[CHOOSE k \in ks : \A j \in ks : j <= k]]

\* STAGE_CODE_TO_LABEL[code] with a code that is not a key
RaiseKeyError(code) ==
    [raised |-> TRUE, error |-> "KeyError", message |-> code,
     invalid_stages |-> {}]

\* a decoder that looks the code up in the alphabetically sorted labels
convert_to_labels_sorted(hypnogram_numeric) ==
    Return([k \in 1..Len(hypnogram_numeric) |->
                <<"N1", "N2", "N3", "R", "W">>[(hypnogram_numeric[k] % 5) + 1]])

convert_to_labels(hypnogram_numeric) ==
    LET hyp_list == hypnogram_numeric
        missing == {k \in 1..Len(hyp_list) :
                        hyp_list[k] \notin DOMAIN STAGE_CODE_TO_LABEL}
    IN  IF missing # {}
        THEN RaiseKeyError(hyp_list[CHOOSE k \in missing :
                                        \A j \in missing : k <= j])
        ELSE Return([k \in 1..Len(hyp_list) |->
                        STAGE_CODE_TO_LABEL[hyp_list[k]]])

\* integers that are not stage codes
BadCodes == {-1, 5}

\* numeric hypnograms: sequences of codes, some with integers that are no code
CodeInputs ==
    SeqsUpTo(PySet(STAGE_CODES), MaxLen)
        \cup SeqsUpTo(PySet(STAGE_CODES) \cup BadCodes, MaxBadLen)

\* a caller holds either a label hypnogram (hypnogram) or a numeric one (arg)
InitCodec ==
    /\ \/ hypnogram \in Inputs /\ arg = <<>>
       \/ hypnogram = <<>> /\ arg \in CodeInputs
    /\ op = "none"
    /\ opts = NoOpts
    /\ ret = NoRet
    /\ prev = NoRet
    /\ NoScript

CallConvertToNumeric ==
    /\ op = "none"
    /\ op' = "convert_to_numeric"
    /\ ret' = convert_to_numeric(hypnogram)
    /\ UNCHANGED <<hypnogram, arg, opts, prev, script>>

CallConvertToLabels ==
    /\ op = "none"
    /\ op' = "convert_to_labels"
    /\ ret' = convert_to_labels(arg)
    /\ UNCHANGED <<hypnogram, arg, opts, prev, script>>

\* convert_to_labels(convert_to_numeric(hypnogram)): the second call
CallLabelsOfNumeric ==
    /\ op = "convert_to_numeric"
    /\ ~ret.raised
    /\ op' = "convert_to_labels(convert_to_numeric)"
    /\ ret' = convert_to_labels(ret.value)
    /\ prev' = ret
    /\ UNCHANGED <<hypnogram, arg, opts, script>>

\* convert_to_numeric(convert_to_labels(arg)): the second call
CallNumericOfLabels ==
    /\ op = "convert_to_labels"
    /\ ~ret.raised
    /\ op' = "convert_to_numeric(convert_to_labels)"
    /\ ret' = convert_to_numeric(ret.value)
    /\ prev' = ret
    /\ UNCHANGED <<hypnogram, arg, opts, script>>

NextCodec ==
    \/ CallConvertToNumeric
    \/ CallConvertToLabels
    \/ CallLabelsOfNumeric
    \/ CallNumericOfLabels

SpecCodec == InitCodec /\ [][NextCodec]_vars

----------------------------------------------------------------------------
(* Exact fractions stand for the floating-point results *)

RECURSIVE GCD(_, _)
GCD(a, b) == IF b = 0 THEN a ELSE GCD(b, a % b)

Abs(x) == IF x < 0 THEN 0 - x ELSE x

\* n/d in lowest terms, d >= 0; a zero denominator is the float's NaN (0/0)
\* or infinity (n/0), as pandas division produces them
Frac(n, d) ==
    LET g == GCD(Abs(n), d)
    IN  IF g = 0
        THEN [num |-> 0, den |-> 0]
        ELSE [num |-> n \div g, den |-> d \div g]

NaN == [num |-> 0, den |-> 0]
IsNaN(a) == a.den = 0 /\ a.num = 0
IsFinite(a) == a.den > 0

FracEq(a, b) == IsFinite(a) /\ IsFinite(b) /\ a.num * b.den = b.num * a.den
FracLe(a, b) == IsFinite(a) /\ IsFinite(b) /\ a.num * b.den <= b.num * a.den
FracLt(a, b) == IsFinite(a) /\ IsFinite(b) /\ a.num * b.den < b.num * a.den
FracAdd(a, b) == Frac(a.num * b.den + b.num * a.den, a.den * b.den)
FracSub(a, b) == Frac(a.num * b.den - b.num * a.den, a.den * b.den)
FracMulInt(a, k) == Frac(a.num * k, a.den)
FracDivInt(a, k) == Frac(a.num, a.den * k)
\* a / b for a, b >= 0
FracDiv(a, b) == Frac(a.num * b.den, a.den * b.num)

RECURSIVE FracSum(_)
FracSum(xs) == IF xs = <<>> THEN Frac(0, 1) ELSE FracAdd(Head(xs), FracSum(Tail(xs)))

----------------------------------------------------------------------------
(* transitions.py: compute_transition_matrix *)

CodeSet == {STAGE_CODES[k] : k \in 1..Len(STAGE_CODES)}

\* pd.DataFrame(0, index=STAGE_CODES, columns=STAGE_CODES)
ZeroMatrix == [a \in CodeSet |-> [b \in CodeSet |-> 0]]

\* a variant that increments the cell (to_stage, from_stage)
CountIter_transposed(froms, tos, k, counts) ==
    [counts EXCEPT ![At(tos, k)][At(froms, k)] = @ + 1]

\* the body of "for from_stage, to_stage in zip(froms, tos)" for the pair
\* at 0-based position k: counts.loc[from_stage, to_stage] += 1
CountIter(froms, tos, k, counts) ==
    [counts EXCEPT ![At(froms, k)][At(tos, k)] = @ + 1]

\* the iterations for the positions lo..hi-1, in order
RECURSIVE CountLoop(_, _, _, _, _)
CountLoop(froms, tos, lo, hi, counts) ==
    IF lo >= hi
    THEN counts
    ELSE IF hi = lo + 1
    THEN CountIter(froms, tos, lo, counts)
    ELSE Then(CountLoop(froms, tos, lo, (lo + hi) \div 2, counts),
              LAMBDA mid : CountLoop(froms, tos, (lo + hi) \div 2, hi, mid))

\* zip stops at the end of the shorter list
CountPairs(froms, tos, counts) ==
    CountLoop(froms, tos, 0, Min2(Len(froms), Len(tos)), counts)

\* transition_counts.sum(axis=1)
RowSum(counts, a) == FracSum([k \in 1..Len(STAGE_CODES) |->
                                Frac(counts[a][STAGE_CODES[k]], 1)]).num

\* counts.div(row_sums, axis=0): the division without replace(0, nan) and
\* fillna(0), which leaves 0/0 in the rows of a stage that has no successor
RowNormalize_no_fillna(counts) ==
    [a \in CodeSet |-> [b \in CodeSet |->
        Frac(counts[a][b], RowSum(counts, a))]]

\* counts.div(row_sums.replace(0, nan), axis=0).fillna(0)
RowNormalize(counts) ==
    [a \in CodeSet |-> [b \in CodeSet |->
        IF RowSum(counts, a) = 0
        THEN Frac(0, 1)
        ELSE Frac(counts[a][b], RowSum(counts, a))]]

\* m.index = m.columns = STAGE_LABELS: the k-th row and column, which held
\* STAGE_CODES[k], are renamed STAGE_LABELS[k]
Relabel(m) ==
    LET pos(l) == CHOOSE k \in 1..Len(STAGE_LABELS) : STAGE_LABELS[k] = l
    IN  [a \in StageSet |-> [b \in StageSet |->
            m[STAGE_CODES[pos(a)]][STAGE_CODES[pos(b)]]]]

compute_transition_matrix(hypnogram_) ==
    LET c == convert_to_numeric(hypnogram_)
    IN  IF c.raised
        THEN c
        ELSE LET hyp_numeric == c.value
                 transition_counts ==
                    CountPairs(PySlice(hyp_numeric, 0, -1),
                               PySlice(hyp_numeric, 1, Len(hyp_numeric)),
                               ZeroMatrix)
                 transition_probs == RowNormalize(transition_counts)
             IN  Return([counts |-> Relabel(transition_counts),
                         probs |-> Relabel(transition_probs)])

CallTransitionMatrix ==
    /\ op = "none"
    /\ op' = "compute_transition_matrix"
    /\ ret' = compute_transition_matrix(hypnogram)
    /\ UNCHANGED <<hypnogram, arg, opts, prev, script>>

SpecTransitions == Init /\ [][CallTransitionMatrix]_vars

----------------------------------------------------------------------------
(* transitions.py: the derived metrics and analyze_transitions *)

\* the dict built by: for stage in STAGE_LABELS: d[prefix + stage + suffix] = F(stage)
PerStage(prefix, suffix, F(_)) ==
    [x \in {prefix \o stage \o suffix : stage \in StageSet} |->
        F(CHOOSE stage \in StageSet : prefix \o stage \o suffix = x)]

\* the count without the comparison: every adjacent pair counts
compute_transition_counts_all_pairs(hypnogram_) ==
    LET c == convert_to_numeric(hypnogram_)
    IN  IF c.raised
        THEN c
        ELSE Return(Max2(Len(c.value) - 1, 0))

\* sum(1 for i in range(1, len(h)) if h[i] != h[i - 1])
compute_transition_counts(hypnogram_) ==
    LET c == convert_to_numeric(hypnogram_)
    IN  IF c.raised
        THEN c
        ELSE LET hyp_numeric == c.value
             IN  Return(Cardinality(
                    {i \in 1..(Len(hyp_numeric) - 1) :
                        At(hyp_numeric, i) # At(hyp_numeric, i - 1)}))

\* the index without the from_stage != 0 test: W -> W pairs count as well
compute_transition_to_wake_index_any_from(hypnogram_) ==
    LET c == convert_to_numeric(hypnogram_)
        t == compute_transition_counts(hypnogram_)
    IN  IF c.raised
        THEN c
        ELSE IF t.raised
        THEN t
        ELSE LET hyp_numeric == c.value
                 total_transitions == t.value
                 to_wake_transitions ==
                    Cardinality({i \in 1..(Len(hyp_numeric) - 1) :
                        At(hyp_numeric, i) = 0})
             IN  IF total_transitions = 0
                 THEN Return(Frac(0, 1))
                 ELSE Return(Frac(to_wake_transitions, total_transitions))

compute_transition_to_wake_index(hypnogram_) ==
    LET c == convert_to_numeric(hypnogram_)
        t == compute_transition_counts(hypnogram_)
    IN  IF c.raised
        THEN c
        ELSE IF t.raised
        THEN t
        ELSE LET hyp_numeric == c.value
                 total_transitions == t.value
                 to_wake_transitions ==
                    Cardinality({i \in 1..(Len(hyp_numeric) - 1) :
                        /\ At(hyp_numeric, i - 1) # 0
                        /\ At(hyp_numeric, i) = 0})
             IN  IF total_transitions = 0
                 THEN Return(Frac(0, 1))
                 ELSE Return(Frac(to_wake_transitions, total_transitions))

\* np.diag(transition_probs).tolist()
compute_stage_persistence_probs(transition_probs) ==
    [k \in 1..Len(STAGE_LABELS) |->
        transition_probs[STAGE_LABELS[k]][STAGE_LABELS[k]]]

\* the row of W in place of the column of W
compute_awakening_probs_row(transition_probs) ==
    [k \in 1..Len(STAGE_LABELS) |-> transition_probs["W"][STAGE_LABELS[k]]]

\* transition_probs["W"].tolist()
compute_awakening_probs(transition_probs) ==
    [k \in 1..Len(STAGE_LABELS) |-> transition_probs[STAGE_LABELS[k]]["W"]]

\* the mean over all five stages, W included
compute_sleep_compactness_with_wake(transition_probs) ==
    LET persistence == compute_stage_persistence_probs(transition_probs)
    IN  FracDivInt(FracSum(persistence), Len(persistence))

\* np.mean of the persistence values whose stage is not W
compute_sleep_compactness(transition_probs) ==
    LET persistence == compute_stage_persistence_probs(transition_probs)
        keep == SelectSeq([k \in 1..Len(persistence) |-> k],
                          LAMBDA k : STAGE_LABELS[k] # "W")
        sleep_persistence == [k \in 1..Len(keep) |-> persistence[keep[k]]]
    IN  FracDivInt(FracSum(sleep_persistence), Len(sleep_persistence))

\* the position of a stage in STAGE_LABELS, as zip(STAGE_LABELS, probs) pairs
\* the stage with the value at the same position
StageIndex(stage) == CHOOSE k \in 1..Len(STAGE_LABELS) : STAGE_LABELS[k] = stage

\* the dict built by the two nested loops over STAGE_LABELS
MatrixEntries(trans_probs) ==
    LET pairs == StageSet \X StageSet
        Key(pr) == "P_" \o pr[1] \o "_to_" \o pr[2]
    IN  [x \in {Key(pr) : pr \in pairs} |->
            LET pr == CHOOSE q \in pairs : Key(q) = x
            IN  trans_probs[pr[1]][pr[2]]]

analyze_transitions(hypnogram_) ==
    LET v == validate_hypnogram(hypnogram_)
    IN  IF v.raised
        THEN v
        ELSE
        LET hyp == v.value
            m == compute_transition_matrix(hyp)
            total_transitions == compute_transition_counts(hyp)
            tw_prob == compute_transition_to_wake_index(hyp)
        IN  IF m.raised
            THEN m
            ELSE IF total_transitions.raised
            THEN total_transitions
            ELSE IF tw_prob.raised
            THEN tw_prob
            ELSE
            LET trans_probs == m.value.probs
                persistence_probs ==
                    compute_stage_persistence_probs(trans_probs)
                awakening_probs == compute_awakening_probs(trans_probs)
                compactness == compute_sleep_compactness(trans_probs)
                Persistence(stage) == persistence_probs[StageIndex(stage)]
                Awakening(stage) == awakening_probs[StageIndex(stage)]
            IN  Return(
                    [x \in {"Total_Transitions", "Prob_Wake_Transition",
                            "Sleep_Compactness"} |->
                        CASE x = "Total_Transitions" ->
                                Frac(total_transitions.value, 1)
                          [] x = "Prob_Wake_Transition" -> tw_prob.value
                          [] x = "Sleep_Compactness" -> compactness]
                    @@ PerStage("Persistence_", "", Persistence)
                    @@ PerStage("Prob_", "_to_W", Awakening)
                    @@ MatrixEntries(trans_probs))

CallAnalyzeTransitions ==
    /\ op = "none"
    /\ op' = "analyze_transitions"
    /\ ret' = analyze_transitions(hypnogram)
    /\ UNCHANGED <<hypnogram, arg, opts, prev, script>>

CallTransitionCounts ==
    /\ op = "none"
    /\ op' = "compute_transition_counts"
    /\ ret' = compute_transition_counts(hypnogram)
    /\ UNCHANGED <<hypnogram, arg, opts, prev, script>>

CallTransitionToWakeIndex ==
    /\ op = "none"
    /\ op' = "compute_transition_to_wake_index"
    /\ ret' = compute_transition_to_wake_index(hypnogram)
    /\ UNCHANGED <<hypnogram, arg, opts, prev, script>>

\* the three functions a caller applies to the probability matrix that
\* compute_transition_matrix returned; prev keeps the matrices
CallStagePersistenceProbs ==
    /\ op = "compute_transition_matrix"
    /\ ~ret.raised
    /\ op' = "compute_stage_persistence_probs"
    /\ prev' = ret
    /\ ret' = Return(compute_stage_persistence_probs(ret.value.probs))
    /\ UNCHANGED <<hypnogram, arg, opts, script>>

CallAwakeningProbs ==
    /\ op = "compute_transition_matrix"
    /\ ~ret.raised
    /\ op' = "compute_awakening_probs"
    /\ prev' = ret
    /\ ret' = Return(compute_awakening_probs(ret.value.probs))
    /\ UNCHANGED <<hypnogram, arg, opts, script>>

CallSleepCompactness ==
    /\ op = "compute_transition_matrix"
    /\ ~ret.raised
    /\ op' = "compute_sleep_compactness"
    /\ prev' = ret
    /\ ret' = Return(compute_sleep_compactness(ret.value.probs))
    /\ UNCHANGED <<hypnogram, arg, opts, script>>

NextAnalysis ==
    \/ CallTransitionMatrix
    \/ CallTransitionCounts
    \/ CallTransitionToWakeIndex
    \/ CallStagePersistenceProbs
    \/ CallAwakeningProbs
    \/ CallSleepCompactness
    \/ CallAnalyzeTransitions

SpecAnalysis == Init /\ [][NextAnalysis]_vars

----------------------------------------------------------------------------
(* utils.py: epochs_to_minutes; core.py: hypnoman *)

\* (epochs * epoch_duration) / 60, epochs being an integer or a float
epochs_to_minutes(epochs, epoch_duration) ==
    Frac(epochs.num * epoch_duration, epochs.den * 60)

SetMin(S) == CHOOSE x \in S : \A y \in S : x <= y
SetMax(S) == CHOOSE x \in S : \A y \in S : x >= y

\* the k-th smallest element of xs, 1 <= k <= len(xs)
KthSmallest(xs, k) ==
    CHOOSE v \in PySet(xs) :
        /\ Cardinality({i \in 1..Len(xs) : xs[i] < v}) < k
        /\ Cardinality({i \in 1..Len(xs) : xs[i] <= v}) >= k

RECURSIVE IntSum(_, _)
IntSum(xs, k) == IF k > Len(xs) THEN 0 ELSE xs[k] + IntSum(xs, k + 1)

\* groupby('Symbol'): the run lengths of the runs whose symbol is stage
RunLengths(rle, stage) ==
    LET keep == SelectSeq([k \in 1..Len(rle.symbols) |-> k],
                          LAMBDA k : rle.symbols[k] = stage)
    IN  [k \in 1..Len(keep) |-> rle.lengths[keep[k]]]

\* a median that takes the upper of the two middle values of a group of even
\* size, where pandas takes their mean
GroupMedian_upper(xs) ==
    Frac(KthSmallest(xs, (Len(xs) \div 2) + 1), 1)

\* .agg mean / median / max of a non-empty group
GroupMean(xs) == Frac(IntSum(xs, 1), Len(xs))
GroupMedian(xs) ==
    IF Len(xs) % 2 = 1
    THEN Frac(KthSmallest(xs, (Len(xs) + 1) \div 2), 1)
    ELSE Frac(KthSmallest(xs, Len(xs) \div 2)
                + KthSmallest(xs, (Len(xs) \div 2) + 1), 2)
GroupMax(xs) == Frac(SetMax(PySet(xs)), 1)

\* round(x, 2) for x >= 0, ties to even as Python rounds an exactly
\* represented float
Round2(x) ==
    LET scaled == x.num * 100
        q == scaled \div x.den
        r == scaled % x.den
    IN  IF 2 * r > x.den \/ (2 * r = x.den /\ q % 2 = 1)
        THEN Frac(q + 1, 100)
        ELSE Frac(q, 100)

\* the result of antropy's lziv_complexity, which is not part of this
\* repository: some normalised complexity value
ExternalLZc == Frac(1, 1)

\* the columns the results DataFrame is created with, all NaN
HypnomanColumns ==
    {"TRT", "TST", "SPT", "WASO", "SOL", "Sleep_efficiency",
     "Sleep_Maintenance_Efficiency", "NREM_duration", "LZc"}
    \cup {stage \o "_duration" : stage \in StageSet}
    \cup {stage \o "_percentage" : stage \in StageSet \ {"W"}}
    \cup {stage \o "_onset" : stage \in StageSet}
    \cup {stage \o "_longest_streak" : stage \in StageSet}
    \cup {stage \o "_mean_length_of_streak" : stage \in StageSet}
    \cup {stage \o "_median_length_of_streak" : stage \in StageSet}

\* hypnoman after validation and trimming, on the list hyp: the value each
\* column holds when the function returns
HypnomanBody(hyp, epoch_duration, has_antropy) ==
    LET rle == rle_encode(hyp)
        Occurs(stage) == \E k \in 1..Len(hyp) : hyp[k] = stage
        Where(stage) == {k \in 0..(Len(hyp) - 1) : At(hyp, k) = stage}
        TRT == epochs_to_minutes(Frac(Len(hyp), 1), epoch_duration)
        \* sleep onset latency, sleep period time
        sleep_indices == {k \in 0..(Len(hyp) - 1) : At(hyp, k) # "W"}
        SOL == IF Cardinality(sleep_indices) > 0
               THEN epochs_to_minutes(Frac(SetMin(sleep_indices), 1),
                                      epoch_duration)
               ELSE TRT
        SPT == FracSub(TRT, SOL)
        \* stage onsets; REM latency is then made relative to sleep onset
        FirstOnset(stage) ==
            IF Occurs(stage)
            THEN epochs_to_minutes(Frac(SetMin(Where(stage)), 1),
                                   epoch_duration)
            ELSE NaN
        Onset(stage) ==
            IF stage = "R" /\ ~IsNaN(FirstOnset(stage))
            THEN FracSub(FirstOnset(stage), SOL)
            ELSE FirstOnset(stage)
        \* stage durations
        stage_durations(stage) ==
            Frac(Cardinality(Where(stage)) * epoch_duration, 60)
        Duration(stage) ==
            IF Occurs(stage) THEN stage_durations(stage) ELSE Frac(0, 1)
        fillna0(x) == IF IsNaN(x) THEN Frac(0, 1) ELSE x
        NREM_duration ==
            FracAdd(FracAdd(fillna0(Duration("N1")), fillna0(Duration("N2"))),
                    fillna0(Duration("N3")))
        TST == FracAdd(NREM_duration, fillna0(Duration("R")))
        SPTPositive == IsFinite(SPT) /\ SPT.num > 0
        SME == IF SPTPositive
               THEN FracMulInt(FracDiv(TST, SPT), 100)
               ELSE NaN
        Percentage(stage) ==
            IF SPTPositive /\ stage # "W" /\ Occurs(stage)
            THEN Round2(FracMulInt(FracDiv(stage_durations(stage), SPT), 100))
            ELSE NaN
        Sleep_efficiency == FracMulInt(FracDiv(TST, TRT), 100)
        WASO == FracSub(SPT, TST)
        \* streak statistics
        InIndex(stage) == \E k \in 1..Len(rle.symbols) : rle.symbols[k] = stage
        MeanRuns(stage) ==
            IF Occurs(stage) /\ InIndex(stage)
            THEN epochs_to_minutes(GroupMean(RunLengths(rle, stage)),
                                   epoch_duration)
            ELSE NaN
        MedRuns(stage) ==
            IF Occurs(stage) /\ InIndex(stage)
            THEN epochs_to_minutes(GroupMedian(RunLengths(rle, stage)),
                                   epoch_duration)
            ELSE NaN
        LongRuns(stage) ==
            IF Occurs(stage) /\ InIndex(stage)
            THEN epochs_to_minutes(GroupMax(RunLengths(rle, stage)),
                                   epoch_duration)
            ELSE NaN
        scalars ==
            [x \in {"TRT", "TST", "SPT", "WASO", "SOL", "Sleep_efficiency",
                    "Sleep_Maintenance_Efficiency", "NREM_duration", "LZc"} |->
                CASE x = "TRT" -> TRT
                  [] x = "TST" -> TST
                  [] x = "SPT" -> SPT
                  [] x = "WASO" -> WASO
                  [] x = "SOL" -> SOL
                  [] x = "Sleep_efficiency" -> Sleep_efficiency
                  [] x = "Sleep_Maintenance_Efficiency" -> SME
                  [] x = "NREM_duration" -> NREM_duration
                  [] x = "LZc" -> IF has_antropy THEN ExternalLZc ELSE NaN]
    IN  scalars
        @@ PerStage("", "_onset", Onset)
        @@ PerStage("", "_duration", Duration)
        @@ [x \in {stage \o "_percentage" : stage \in StageSet \ {"W"}} |->
                Percentage(CHOOSE stage \in StageSet :
                                stage \o "_percentage" = x)]
        @@ PerStage("", "_mean_length_of_streak", MeanRuns)
        @@ PerStage("", "_median_length_of_streak", MedRuns)
        @@ PerStage("", "_longest_streak", LongRuns)
        @@ [x \in HypnomanColumns |-> NaN]

\* hypnoman taking np.where(hyp_series == stage)[0].min() without the
\* isin(...).any() guard: the minimum of an empty array raises
hypnoman_unguarded_onset(hypnogram_, epoch_duration, trim_wake, max_wake_epochs, has_antropy) ==
    LET v == validate_hypnogram(hypnogram_)
    IN  IF v.raised
        THEN v
        ELSE LET t == IF trim_wake
                      THEN trim_terminal_wake(v.value, max_wake_epochs)
                      ELSE v
             IN  IF t.raised
                 THEN t
                 ELSE IF \E stage \in StageSet : stage \notin PySet(t.value)
                 THEN RaiseValueError("zero-size array to reduction operation", {})
                 ELSE Return(HypnomanBody(t.value, epoch_duration,
                                          has_antropy))

\* hypnoman whose else branch of the SOL computation stores 0, not TRT
hypnoman_sol_zero_without_sleep(hypnogram_, epoch_duration, trim_wake, max_wake_epochs, has_antropy) ==
    LET v == validate_hypnogram(hypnogram_)
    IN  IF v.raised
        THEN v
        ELSE LET t == IF trim_wake
                      THEN trim_terminal_wake(v.value, max_wake_epochs)
                      ELSE v
             IN  IF t.raised
                 THEN t
                 ELSE LET b == HypnomanBody(t.value, epoch_duration,
                                            has_antropy)
                      IN  Return(IF \A k \in 1..Len(t.value) : t.value[k] = "W"
                                 THEN ("SOL" :> Frac(0, 1)) @@ b
                                 ELSE b)

\* hypnoman taking TRT from len(hypnogram) before the trimming
hypnoman_untrimmed_trt(hypnogram_, epoch_duration, trim_wake, max_wake_epochs, has_antropy) ==
    LET v == validate_hypnogram(hypnogram_)
    IN  IF v.raised
        THEN v
        ELSE LET t == IF trim_wake
                      THEN trim_terminal_wake(v.value, max_wake_epochs)
                      ELSE v
             IN  IF t.raised
                 THEN t
                 ELSE LET b == HypnomanBody(t.value, epoch_duration,
                                            has_antropy)
                      IN  Return(("TRT" :> epochs_to_minutes(Frac(Len(v.value), 1),
                                                           epoch_duration))
                                 @@ b)

\* hypnoman without the correction of R_onset by SOL
hypnoman_raw_r_onset(hypnogram_, epoch_duration, trim_wake, max_wake_epochs, has_antropy) ==
    LET v == validate_hypnogram(hypnogram_)
    IN  IF v.raised
        THEN v
        ELSE LET t == IF trim_wake
                      THEN trim_terminal_wake(v.value, max_wake_epochs)
                      ELSE v
             IN  IF t.raised
                 THEN t
                 ELSE LET b == HypnomanBody(t.value, epoch_duration,
                                            has_antropy)
                      IN  Return(IF IsNaN(b["R_onset"])
                                 THEN b
                                 ELSE ("R_onset" :>
                                         FracAdd(b["R_onset"], b["SOL"])) @@ b)

hypnoman(hypnogram_, epoch_duration, trim_wake, max_wake_epochs, has_antropy) ==
    LET v == validate_hypnogram(hypnogram_)
    IN  IF v.raised
        THEN v
        ELSE LET t == IF trim_wake
                      THEN trim_terminal_wake(v.value, max_wake_epochs)
                      ELSE v
             IN  IF t.raised
                 THEN t
                 ELSE Return(HypnomanBody(t.value, epoch_duration,
                                          has_antropy))

CallHypnoman(epoch_duration, trim_wake, max_wake_epochs, has_antropy) ==
    /\ op = "none"
    /\ op' = "hypnoman"
    /\ arg' = max_wake_epochs
    /\ opts' = Opts(epoch_duration, trim_wake, has_antropy)
    /\ ret' = hypnoman(hypnogram, epoch_duration, trim_wake, max_wake_epochs,
                       has_antropy)
    /\ UNCHANGED <<hypnogram, prev, script>>

\* epoch lengths a caller passes: the default and a shorter one
EpochDurations == {DEFAULT_EPOCH_DURATION, 20}

\* hypnoman with the trimming on, for the thresholds 0, 1 and the default,
\* and with the trimming off
NextHypnoman ==
    \E epoch_duration \in EpochDurations :
        \/ \E max_wake_epochs \in {0, 1, DEFAULT_MAX_WAKE_EPOCHS} :
                CallHypnoman(epoch_duration, TRUE, max_wake_epochs, FALSE)
        \/ CallHypnoman(epoch_duration, FALSE, DEFAULT_MAX_WAKE_EPOCHS, FALSE)

SpecHypnoman == Init /\ [][NextHypnoman]_vars

----------------------------------------------------------------------------
(* core.py: the time columns of hypnoman in binary64 arithmetic *)

(***************************************************************************)
(* The fractions above are the real numbers the columns stand for.  The    *)
(* code computes them as binary64 floats, and every one of the time        *)
(* columns is a sum or difference of quotients seconds / 60.  Such a float *)
(* is written [s |-> N, err |-> R] and has the value                       *)
(*     (N + R / 2^ErrBits) / 60 :                                          *)
(* N whole seconds, and the rounding error made so far.  Rounding to 53    *)
(* significant bits changes err only, and needs the value modulo a small   *)
(* number only, so no integer of the model leaves 32 bits.                 *)
(***************************************************************************)
ErrBits == 60

B64(s, err) == [s |-> s, err |-> err]

\* 0.0
B64Zero == B64(0, 0)

\* the value (N + R / 2^ErrBits) / 60, with N > 0, is at least 2^e
B64AtLeast(N, R, e) ==
    IF e >= 0
    THEN N > 60 * (2 ^ e) \/ (N = 60 * (2 ^ e) /\ R >= 0)
    ELSE IF e >= -2
    THEN N > 60 \div (2 ^ (-e)) \/ (N = 60 \div (2 ^ (-e)) /\ R >= 0)
    ELSE N * (2 ^ (-2 - e)) > 15

\* the binary exponent of the value, N > 0
B64Exponent(N, R) ==
    CHOOSE e \in -6..20 : B64AtLeast(N, R, e) /\ ~B64AtLeast(N, R, e + 1)

\* round-to-nearest-even of a positive value to 53 significant bits: with
\* binary exponent e the floats are 2^(e - 52) apart, which is D units of
\* 1 / (60 * 2^ErrBits) for D = 15 * 2^(e + 10)
B64RoundPositive(N, R) ==
    LET s == B64Exponent(N, R) + 11
        D == 15 * (2 ^ (s - 1))
        m2 == ((2 ^ s) * (((N % 15) * (2 ^ ((ErrBits - s) % 4))) % 15) + R)
                    % (2 * D)
        rem == m2 % D
        odd == m2 >= D
        up == 2 * rem > D \/ (2 * rem = D /\ odd)
    IN  B64(N, R - rem + (IF up THEN D ELSE 0))

\* the float nearest to (N + R / 2^ErrBits) / 60; a value with N = 0 is a
\* difference of two nearby floats and is a float itself
B64Round(N, R) ==
    IF N = 0
    THEN B64(N, R)
    ELSE IF N < 0
    THEN LET p == B64RoundPositive(-N, -R) IN B64(-p.s, -p.err)
    ELSE B64RoundPositive(N, R)

\* x + y and x - y
B64Add(x, y) == B64Round(x.s + y.s, x.err + y.err)
B64Sub(x, y) == B64Round(x.s - y.s, x.err - y.err)

\* x <= y
B64Le(x, y) == x.s < y.s \/ (x.s = y.s /\ x.err <= y.err)

\* x and y differ by rounding errors only
B64Near(x, y) == x.s = y.s

\* (epochs * epoch_duration) / 60
epochs_to_minutes_binary64(epochs, epoch_duration) ==
    B64Round(epochs * epoch_duration, 0)

\* TRT, SOL, SPT, the stage durations, NREM_duration, TST and WASO as
\* hypnoman computes them, on the list hyp left by validation and trimming
HypnomanTimes(hyp, epoch_duration) ==
    LET Count(stage) == Cardinality({k \in 1..Len(hyp) : hyp[k] = stage})
        sleep_indices == {k \in 0..(Len(hyp) - 1) : At(hyp, k) # "W"}
        TRT == epochs_to_minutes_binary64(Len(hyp), epoch_duration)
        SOL == IF sleep_indices # {}
               THEN epochs_to_minutes_binary64(
                        CHOOSE k \in sleep_indices :
                            \A j \in sleep_indices : k <= j,
                        epoch_duration)
               ELSE TRT
        SPT == B64Sub(TRT, SOL)
        duration(stage) ==
            IF Count(stage) > 0
            THEN epochs_to_minutes_binary64(Count(stage), epoch_duration)
            ELSE B64Zero
        NREM_duration ==
            B64Add(B64Add(duration("N1"), duration("N2")), duration("N3"))
        TST == B64Add(NREM_duration, duration("R"))
    IN  [TRT |-> TRT, SOL |-> SOL, SPT |-> SPT,
         W_duration |-> duration("W"), N1_duration |-> duration("N1"),
         N2_duration |-> duration("N2"), N3_duration |-> duration("N3"),
         R_duration |-> duration("R"), NREM_duration |-> NREM_duration,
         TST |-> TST, WASO |-> B64Sub(SPT, TST)]

\* hypnoman, its time columns only, in binary64
hypnoman_binary64(hypnogram_, epoch_duration, trim_wake, max_wake_epochs) ==
    LET v == validate_hypnogram(hypnogram_)
    IN  IF v.raised
        THEN v
        ELSE LET t == IF trim_wake
                      THEN trim_terminal_wake(v.value, max_wake_epochs)
                      ELSE v
             IN  IF t.raised
                 THEN t
                 ELSE Return(HypnomanTimes(t.value, epoch_duration))

CallHypnomanBinary64(epoch_duration, trim_wake, max_wake_epochs) ==
    /\ op = "none"
    /\ op' = "hypnoman_binary64"
    /\ arg' = max_wake_epochs
    /\ opts' = Opts(epoch_duration, trim_wake, FALSE)
    /\ ret' = hypnoman_binary64(hypnogram, epoch_duration, trim_wake,
                                max_wake_epochs)
    /\ UNCHANGED <<hypnogram, prev, script>>

NextHypnomanBinary64 ==
    \E epoch_duration \in EpochDurations :
        \/ \E max_wake_epochs \in {0, 1, DEFAULT_MAX_WAKE_EPOCHS} :
                CallHypnomanBinary64(epoch_duration, TRUE, max_wake_epochs)
        \/ CallHypnomanBinary64(epoch_duration, FALSE,
                                DEFAULT_MAX_WAKE_EPOCHS)

SpecHypnomanBinary64 == Init /\ [][NextHypnomanBinary64]_vars

----------------------------------------------------------------------------
(* Every analysis function that validates its hypnogram argument *)

\* a threshold argument: the smallest one and the default
Thresholds(default) == {0, default}

NextContract ==
    \/ \E m \in Thresholds(DEFAULT_MAX_WAKE_EPOCHS) : CallTrim(m)
    \/ \E m \in Thresholds(DEFAULT_MIN_NREM_EPOCHS) : CallFindNrem(m)
    \/ \E m \in Thresholds(DEFAULT_MIN_REM_EPOCHS) : CallFindRem(m)
    \/ \E trim_wake \in BOOLEAN, has_antropy \in BOOLEAN :
            CallHypnoman(DEFAULT_EPOCH_DURATION, trim_wake,
                         DEFAULT_MAX_WAKE_EPOCHS, has_antropy)
    \/ CallTransitionMatrix
    \/ CallAnalyzeTransitions

SpecContract == Init /\ [][NextContract]_vars

----------------------------------------------------------------------------
(* A caller that keeps its hypnogram and calls the functions again and again *)

\* the calls the caller makes: the function, its threshold and its options
Calls ==
    {[op |-> "trim_terminal_wake", arg |-> m, opts |-> NoOpts] :
        m \in Thresholds(DEFAULT_MAX_WAKE_EPOCHS)}
    \cup {[op |-> "find_nremstretches", arg |-> DEFAULT_MIN_NREM_EPOCHS,
           opts |-> NoOpts],
          [op |-> "find_rem_stretches", arg |-> DEFAULT_MIN_REM_EPOCHS,
           opts |-> NoOpts],
          [op |-> "compute_transition_matrix", arg |-> 0, opts |-> NoOpts],
          [op |-> "analyze_transitions", arg |-> 0, opts |-> NoOpts]}
    \cup {[op |-> "hypnoman", arg |-> DEFAULT_MAX_WAKE_EPOCHS,
           opts |-> Opts(DEFAULT_EPOCH_DURATION, trim_wake, FALSE)] :
        trim_wake \in BOOLEAN}

\* the outcome of a call on the list h
Invoke(c, h) ==
    CASE c.op = "trim_terminal_wake" -> trim_terminal_wake(h, c.arg)
      [] c.op = "find_nremstretches" -> find_nremstretches(h, c.arg)
      [] c.op = "find_rem_stretches" -> find_rem_stretches(h, c.arg)
      [] c.op = "compute_transition_matrix" -> compute_transition_matrix(h)
      [] c.op = "analyze_transitions" -> analyze_transitions(h)
      [] c.op = "hypnoman" ->
            hypnoman(h, c.opts.epoch_duration, c.opts.trim_wake, c.arg,
                     c.opts.HAS_ANTROPY)

\* the list the function itself holds when it returns: the list made by
\* validate_hypnogram, cut where the function trims it
LocalList(c, h) ==
    LET t == trim_terminal_wake(h, c.arg)
    IN  IF t.raised
        THEN h
        ELSE IF c.op = "trim_terminal_wake"
                    \/ (c.op = "hypnoman" /\ c.opts.trim_wake)
        THEN t.value
        ELSE h

\* a function that works on the caller's own list
CallerList_shared(hypnogram_, hyp) == hyp

\* the caller's list after the call: validate_hypnogram builds a new list
\* (list(hypnogram), tolist()), the slices build new lists again, and no
\* statement assigns into the argument
CallerList(hypnogram_, hyp) == hypnogram_

\* no call is remembered yet
NoCall ==
    [op |-> "none", arg |-> 0, opts |-> NoOpts, ret |-> NoRet,
     between |-> FALSE]

InitCaller ==
    /\ hypnogram \in SeqsUpTo(StageSet, MaxCallerLen)
            \cup SeqsUpTo(StageSet \cup BadLabels, MaxCallerLen - 1)
            \cup Examples
    /\ op = "none"
    /\ arg = 0
    /\ opts = NoOpts
    /\ ret = NoRet
    /\ prev = NoCall
    /\ NoScript

\* one more call; prev remembers the caller's first call, and whether other
\* calls were made since
CallAgain(c) ==
    /\ op' = c.op
    /\ arg' = c.arg
    /\ opts' = c.opts
    /\ ret' = Invoke(c, hypnogram)
    /\ hypnogram' = CallerList(hypnogram, LocalList(c, hypnogram))
    /\ prev' = IF prev = NoCall
               THEN [op |-> c.op, arg |-> c.arg, opts |-> c.opts,
                     ret |-> ret', between |-> FALSE]
               ELSE [prev EXCEPT !.between = TRUE]
    /\ UNCHANGED script

NextCaller == \E c \in Calls : CallAgain(c)

SpecCaller == InitCaller /\ [][NextCaller]_vars

----------------------------------------------------------------------------
(* examples/polyman_analysis.py: the batch script *)

\* the value None, kept apart from every list of stage labels
None == <<"None">>

\* str(n) for the small numbers the script prints
Str(n) == <<"0", "1", "2", "3", "4", "5", "6", "7", "8", "9">>[n + 1]

\* what read_edf_hypnogram does with an EDF file: it returns the list of
\* stage labels (empty when the file has no annotation), returns None when
\* a label is not a sleep stage, or raises (mne cannot read the file)
EdfFiles ==
    {[read |-> "list", stages |-> <<>>],
     [read |-> "list", stages |-> <<"W", "N2", "N2", "R", "W">>],
     [read |-> "None", stages |-> <<>>],
     [read |-> "raise", stages |-> <<>>]}

\* os.path.splitext(os.path.basename(fname))[0] of the k-th file found
BaseName(k) == "subject0" \o Str(k)

\* a single-row DataFrame: its columns, in order, each with its value
Row(columns, values) ==
    Then(values, LAMBDA v :
        [k \in 1..Len(columns) |->
            [column |-> columns[k], value |-> v[columns[k]]]])

\* the column names of a row
Columns(row) == {row[k].column : k \in 1..Len(row)}

\* the columns sleep_data is created with, in order
HypnomanColumnOrder ==
    <<"TRT", "TST", "SPT", "WASO", "SOL", "Sleep_efficiency",
      "Sleep_Maintenance_Efficiency",
      "W_duration", "N1_duration", "N2_duration", "N3_duration",
      "R_duration", "NREM_duration",
      "N1_percentage", "N2_percentage", "N3_percentage", "R_percentage",
      "W_onset", "N1_onset", "N2_onset", "N3_onset", "R_onset",
      "W_longest_streak", "N1_longest_streak", "N2_longest_streak",
      "N3_longest_streak", "R_longest_streak",
      "W_mean_length_of_streak", "N1_mean_length_of_streak",
      "N2_mean_length_of_streak", "N3_mean_length_of_streak",
      "R_mean_length_of_streak",
      "W_median_length_of_streak", "N1_median_length_of_streak",
      "N2_median_length_of_streak", "N3_median_length_of_streak",
      "R_median_length_of_streak", "LZc">>

\* the keys of flat_results, in insertion order
AnalysisColumnOrder ==
    <<"Total_Transitions", "Prob_Wake_Transition", "Sleep_Compactness">>
    \o [k \in 1..5 |-> "Persistence_" \o STAGE_LABELS[k]]
    \o [k \in 1..5 |-> "Prob_" \o STAGE_LABELS[k] \o "_to_W"]
    \o [k \in 1..25 |-> "P_" \o STAGE_LABELS[((k - 1) \div 5) + 1]
                            \o "_to_" \o STAGE_LABELS[((k - 1) % 5) + 1]]

\* pd.concat([a, b], axis=1) of two single-row frames: the columns of a,
\* then those of b, equal names included
ConcatColumns(a, b) == a \o b

\* an assignment that replaces the last column instead of adding one
SetColumn_replace_last(row, column, value) ==
    [row EXCEPT ![Len(row)] = [column |-> column, value |-> value]]

\* df[column] = value: every column of that name takes the value; a new
\* column is added at the end when there is none
SetColumn(row, column, value) ==
    IF column \in Columns(row)
    THEN [k \in 1..Len(row) |->
            IF row[k].column = column
            THEN [column |-> column, value |-> value]
            ELSE row[k]]
    ELSE Append(row, [column |-> column, value |-> value])

\* master_df[["fname"] + the other columns], one row
FnameFirst(row) ==
    SelectSeq(row, LAMBDA c : c.column = "fname")
        \o SelectSeq(row, LAMBDA c : c.column # "fname")

\* a handler that lets the exception end the script
OnException_abort(pc_) == "raised"

\* except Exception: print the error and continue with the next file
OnException(pc_) == pc_

\* an external call of the loop body failed
RaiseExternal(msg) ==
    [raised |-> TRUE, error |-> "Exception", message |-> msg,
     invalid_stages |-> {}]

\* the script starts: the folder dialogs are answered and glob has run
InitBatch ==
    /\ pc = "start"
    /\ filelist \in SeqsUpTo(EdfFiles, MaxFiles)
    /\ \E has_antropy \in BOOLEAN :
            opts = Opts(DEFAULT_EPOCH_DURATION, TRUE, has_antropy)
    /\ hypnogram = None
    /\ op = "none"
    /\ arg = DEFAULT_MAX_WAKE_EPOCHS
    /\ ret = NoRet
    /\ prev = NoRet
    /\ file_no = 0
    /\ sleep_params = <<>>
    /\ trans_params = <<>>
    /\ masterlist = <<>>
    /\ printed = <<>>
    /\ master_df = <<>>

\* step 2: leave when no file was found, else start the loop
CheckFiles ==
    /\ pc = "start"
    /\ IF Len(filelist) = 0
       THEN /\ pc' = "exit"
            /\ printed' = printed \o <<"Found 0 EDF file(s)",
                                       "No EDF files found.">>
       ELSE /\ pc' = "loop"
            /\ printed' = Append(printed, "Found " \o Str(Len(filelist))
                                            \o " EDF file(s)")
    /\ UNCHANGED <<hypnogram, op, arg, opts, ret, prev, filelist, file_no,
                   sleep_params, trans_params, masterlist, master_df>>

\* step 3: one iteration of the loop; saved tells whether the plot and the
\* CSV of the file could be written.  printed keeps the line that names the
\* file and the line that tells its fate, not the progress lines between.
ProcessFile(saved) ==
    /\ pc = "loop"
    /\ file_no < Len(filelist)
    /\ file_no' = file_no + 1
    /\ LET edf == filelist[file_no']
           base_name == BaseName(file_no')
           head == "[" \o Str(file_no') \o "/" \o Str(Len(filelist))
                       \o "] Processing: " \o base_name
           nrem == find_nremstretches(edf.stages, DEFAULT_MIN_NREM_EPOCHS)
           rem == find_rem_stretches(edf.stages, DEFAULT_MIN_REM_EPOCHS)
           sleep == hypnoman(edf.stages, 30, TRUE, DEFAULT_MAX_WAKE_EPOCHS,
                             opts.HAS_ANTROPY)
           trans == analyze_transitions(edf.stages)
           e == CASE edf.read = "raise" -> RaiseExternal("cannot read")
                  [] edf.read = "None" -> NoRet
                  [] nrem.raised -> nrem
                  [] rem.raised -> rem
                  [] ~saved -> RaiseExternal("cannot write")
                  [] sleep.raised -> sleep
                  [] OTHER -> trans
       IN  /\ hypnogram' = CASE edf.read = "raise" -> hypnogram
                             [] edf.read = "None" -> None
                             [] OTHER -> edf.stages
           /\ IF edf.read = "None"
              THEN /\ printed' = printed \o <<head,
                        "  [WARNING] Skipped: file contains non-sleep stage labels">>
                   /\ pc' = pc
                   /\ UNCHANGED <<sleep_params, trans_params, masterlist>>
              ELSE IF e.raised
              THEN /\ printed' = printed \o <<head,
                        "  [ERROR] Could not process file: " \o e.message>>
                   /\ pc' = OnException(pc)
                   /\ sleep_params' =
                        IF edf.read = "list" /\ ~nrem.raised /\ ~rem.raised
                                /\ saved /\ ~sleep.raised
                        THEN Row(HypnomanColumnOrder, sleep.value)
                        ELSE sleep_params
                   /\ UNCHANGED <<trans_params, masterlist>>
              ELSE /\ sleep_params' = Row(HypnomanColumnOrder, sleep.value)
                   /\ trans_params' = Row(AnalysisColumnOrder, trans.value)
                   /\ masterlist' = Append(masterlist,
                        SetColumn(ConcatColumns(sleep_params', trans_params'),
                                  "fname", base_name))
                   /\ printed' = printed \o <<head,
                                              "  Sleep parameters calculated">>
                   /\ pc' = pc
    /\ UNCHANGED <<op, arg, opts, ret, prev, filelist, master_df>>

\* step 4, after the last file: the master sheet is written when there is a
\* row, and the summary is printed; written tells whether to_csv succeeded
SaveMaster(written) ==
    /\ pc = "loop"
    /\ file_no = Len(filelist)
    /\ IF masterlist # <<>>
       THEN /\ master_df' =
                IF written
                THEN [k \in 1..Len(masterlist) |-> FnameFirst(masterlist[k])]
                ELSE master_df
            /\ pc' = IF written THEN "done" ELSE "raised"
            /\ printed' =
                IF written
                THEN Append(printed,
                        "Processed " \o Str(Len(masterlist)) \o " of "
                            \o Str(Len(filelist)) \o " file(s) successfully")
                ELSE printed
       ELSE /\ written
            /\ pc' = "done"
            /\ printed' = Append(printed,
                    "[WARNING] No files were processed successfully.")
            /\ UNCHANGED master_df
    /\ UNCHANGED <<hypnogram, op, arg, opts, ret, prev, filelist, file_no,
                   sleep_params, trans_params, masterlist>>

NextBatch ==
    \/ CheckFiles
    \/ \E saved \in BOOLEAN : ProcessFile(saved)
    \/ \E written \in BOOLEAN : SaveMaster(written)

SpecBatch == InitBatch /\ [][NextBatch]_vars

\* the interpreter runs the script to its end: a step that can be taken is
\* taken
SpecBatchFair == SpecBatch /\ WF_vars(NextBatch)

----------------------------------------------------------------------------
(* Claims about validate_hypnogram *)

\* the out-of-vocabulary labels that occur in seq
Offending(seq) == {l \in BadLabels : \E k \in 1..Len(seq) : seq[k] = l}

\* C1: validate_hypnogram raises the validation error when the input is
\* empty or holds a label outside {W, N1, N2, N3, R}, reporting exactly the
\* offending labels; any other input is returned label for label, in the
\* same order and with the same length.
C1_ValidateStrict ==
    op = "validate_hypnogram" =>
        IF Len(hypnogram) = 0 \/ Offending(hypnogram) # {}
        THEN /\ ret.raised
             /\ ret.error = "ValueError"
             /\ ret.invalid_stages = Offending(hypnogram)
        ELSE /\ ~ret.raised
             /\ Len(ret.value) = Len(hypnogram)
             /\ \A k \in 1..Len(hypnogram) : ret.value[k] = hypnogram[k]

\* a rejected input with a valid label and two distinct offending ones
C1_Witness ==
    /\ op = "validate_hypnogram"
    /\ Len(hypnogram) = 3
    /\ "N2" \in PySet(hypnogram)
    /\ ret.raised
    /\ Cardinality(ret.invalid_stages) = 2

----------------------------------------------------------------------------
(* Claims about the validation contract of the analysis functions *)

Valid(h) ==
    /\ Len(h) > 0
    /\ \A k \in 1..Len(h) : h[k] \in {"W", "N1", "N2", "N3", "R"}

ContractOps ==
    {"trim_terminal_wake", "find_nremstretches", "find_rem_stretches",
     "hypnoman", "compute_transition_matrix", "analyze_transitions"}

IsValidationError(r) ==
    /\ r.raised
    /\ r.error = "ValueError"
    /\ r.message \in {"Hypnogram cannot be empty", "Invalid stage labels found"}

\* the call recorded in the state left every optional parameter at its default
DefaultParameters ==
    CASE op = "trim_terminal_wake" -> arg = DEFAULT_MAX_WAKE_EPOCHS
      [] op = "find_nremstretches" -> arg = DEFAULT_MIN_NREM_EPOCHS
      [] op = "find_rem_stretches" -> arg = DEFAULT_MIN_REM_EPOCHS
      [] op = "hypnoman" -> /\ arg = DEFAULT_MAX_WAKE_EPOCHS
                            /\ opts.epoch_duration = DEFAULT_EPOCH_DURATION
                            /\ opts.trim_wake
      [] OTHER -> TRUE

\* C2: each of trim_terminal_wake, find_nremstretches, find_rem_stretches,
\* hypnoman, compute_transition_matrix and analyze_transitions raises the
\* validation error exactly when its hypnogram is empty or holds a label
\* outside the vocabulary, and on every valid hypnogram, called with default
\* parameters, it returns a result without raising.
C2_ValidationContract ==
    op \in ContractOps =>
        /\ IsValidationError(ret) <=> ~Valid(hypnogram)
        /\ (Valid(hypnogram) /\ DefaultParameters) => ~ret.raised

\* hypnoman with default parameters returns on a single-epoch all-W hypnogram
C2_Witness ==
    /\ op = "hypnoman"
    /\ DefaultParameters
    /\ hypnogram = <<"W">>
    /\ ~ret.raised
    /\ IsNaN(ret.value["R_onset"])

----------------------------------------------------------------------------
(* Claims about rle_encode *)

RECURSIVE SumSeq(_)
SumSeq(xs) == IF xs = <<>> THEN 0 ELSE Head(xs) + SumSeq(Tail(xs))

\* lengths[k] copies of symbols[k], for every k in order
RECURSIVE Expand(_, _)
Expand(symbols, lengths) ==
    IF symbols = <<>>
    THEN <<>>
    ELSE Rep(Head(symbols), Head(lengths))
            \o Expand(Tail(symbols), Tail(lengths))

\* C3: for every sequence (the empty one included) the run lengths sum to
\* the length of the sequence and expanding the runs in order gives the
\* sequence back.
C3_RleRoundTrip ==
    op = "rle_encode" =>
        /\ ~ret.raised
        /\ SumSeq(ret.value.lengths) = Len(hypnogram)
        /\ Len(ret.value.symbols) = Len(ret.value.lengths)
        /\ Expand(ret.value.symbols, ret.value.lengths) = hypnogram

\* a sequence with a repeated symbol in two separate runs
C3_Witness ==
    /\ op = "rle_encode"
    /\ hypnogram = <<"W", "W", "N2", "W", "W">>
    /\ ret.value.lengths = <<2, 1, 2>>

\* C4: the runs of rle_encode are maximal: as many symbols as lengths, every
\* length at least 1, no two neighbouring symbols equal; the empty sequence
\* gives two empty lists, not an error.
C4_RleMaximalRuns ==
    op = "rle_encode" =>
        /\ ~ret.raised
        /\ Len(ret.value.symbols) = Len(ret.value.lengths)
        /\ \A k \in 1..Len(ret.value.lengths) : ret.value.lengths[k] >= 1
        /\ \A k \in 1..(Len(ret.value.symbols) - 1) :
                ret.value.symbols[k] # ret.value.symbols[k + 1]
        /\ (hypnogram = <<>> =>
                ret.value.symbols = <<>> /\ ret.value.lengths = <<>>)

\* a run longer than one epoch between two other runs
C4_Witness ==
    /\ op = "rle_encode"
    /\ Len(hypnogram) = 4
    /\ ret.value.symbols = <<"N1", "N2", "R">>
    /\ ret.value.lengths = <<1, 2, 1>>

----------------------------------------------------------------------------
(* Claims about the cycle detectors *)

\* a non-empty sequence of labels of the vocabulary
IsNrem(l) == l = "N1" \/ l = "N2" \/ l = "N3"

\* the labels of h at the 0-based positions s..e
Labels(h, s, e) == [k \in 1..(e - s + 1) |-> h[s + k]]

\* C5: for a valid hypnogram and min_nrem_epochs >= 1, every pair (s, e)
\* that find_nremstretches returns starts on N2, holds only NREM labels, is
\* at least min_nrem_epochs long, ends at the last index or right before a
\* non-NREM label, and its stretch is the labels at s..e.
C5_NremStretchShape ==
    (op = "find_nremstretches" /\ Valid(hypnogram) /\ arg >= 1) =>
        /\ ~ret.raised
        /\ \A k \in 1..Len(ret.value.indices) :
            LET s == ret.value.indices[k][1]
                e == ret.value.indices[k][2]
                n == Len(hypnogram)
            IN  /\ s >= 0 /\ e <= n - 1
                /\ hypnogram[s + 1] = "N2"
                /\ \A q \in s..e : IsNrem(hypnogram[q + 1])
                /\ e - s + 1 >= arg
                /\ s <= n - arg
                /\ (e = n - 1 \/ ~IsNrem(hypnogram[e + 2]))
                /\ k <= Len(ret.value.stretches)
                /\ ret.value.stretches[k] = Labels(hypnogram, s, e)

\* two stretches, the second one running past its minimum window
C5_Witness ==
    /\ op = "find_nremstretches"
    /\ arg = 1
    /\ hypnogram = <<"N2", "W", "N2", "N1", "N3">>
    /\ ~ret.raised
    /\ ret.value.indices = << <<0, 0>>, <<2, 4>> >>

\* the maximal runs of R of h, as 0-based (first, last) pairs
RRuns(h) ==
    {r \in (0..(Len(h) - 1)) \X (0..(Len(h) - 1)) :
        /\ r[1] <= r[2]
        /\ \A q \in r[1]..r[2] : h[q + 1] = "R"
        /\ (r[1] = 0 \/ h[r[1]] # "R")
        /\ (r[2] = Len(h) - 1 \/ h[r[2] + 2] # "R")}

\* the runs find_rem_stretches is to return: the first run of R, and the
\* later ones that are long enough
RemExpected(h, min_rem_epochs) ==
    {r \in RRuns(h) :
        \/ \A r2 \in RRuns(h) : r[1] <= r2[1]
        \/ r[2] - r[1] + 1 >= min_rem_epochs}

\* C6: for a valid hypnogram and min_rem_epochs >= 1, find_rem_stretches
\* returns, in order, the first maximal run of R whatever its length and
\* every later maximal run of R of at least min_rem_epochs labels, each as
\* the whole run with the run's first and last position; nothing else.
C6_RemStretchesExact ==
    (op = "find_rem_stretches" /\ Valid(hypnogram) /\ arg >= 1) =>
        /\ ~ret.raised
        /\ Len(ret.value.indices) = Cardinality(RemExpected(hypnogram, arg))
        /\ Len(ret.value.stretches) = Len(ret.value.indices)
        /\ {ret.value.indices[k] : k \in 1..Len(ret.value.indices)}
                = RemExpected(hypnogram, arg)
        /\ \A k \in 1..(Len(ret.value.indices) - 1) :
                ret.value.indices[k][1] < ret.value.indices[k + 1][1]
        /\ \A k \in 1..Len(ret.value.indices) :
                ret.value.stretches[k] =
                    Labels(hypnogram, ret.value.indices[k][1],
                           ret.value.indices[k][2])
        /\ (ret.value.indices # <<>>
                <=> \E k \in 1..Len(hypnogram) : hypnogram[k] = "R")

\* a one-epoch first run is kept and an equally short later run is dropped
C6_Witness ==
    /\ op = "find_rem_stretches"
    /\ arg = 2
    /\ hypnogram = <<"R", "W", "R", "N2", "N2">>
    /\ ~ret.raised
    /\ ret.value.indices = << <<0, 0>> >>

\* C7: the index pairs returned by find_nremstretches and by
\* find_rem_stretches lie within the hypnogram, have start <= end, are
\* strictly increasing without overlap, and are as many as the stretches.
C7_StretchesOrdered ==
    ((op = "find_nremstretches" \/ op = "find_rem_stretches")
            /\ Valid(hypnogram) /\ ~ret.raised) =>
        /\ Len(ret.value.stretches) = Len(ret.value.indices)
        /\ \A k \in 1..Len(ret.value.indices) :
                /\ 0 <= ret.value.indices[k][1]
                /\ ret.value.indices[k][1] <= ret.value.indices[k][2]
                /\ ret.value.indices[k][2] <= Len(hypnogram) - 1
        /\ \A k \in 1..(Len(ret.value.indices) - 1) :
                ret.value.indices[k][2] < ret.value.indices[k + 1][1]

\* two NREM stretches separated by one epoch of wake
C7_Witness ==
    /\ op = "find_nremstretches"
    /\ arg = 2
    /\ hypnogram = <<"N2", "N3", "W", "N2", "N1">>
    /\ ~ret.raised
    /\ Len(ret.value.indices) = 2

----------------------------------------------------------------------------
(* Claims about trim_terminal_wake *)

\* the number of W labels h ends in
TrailingW(h) ==
    CHOOSE t \in 0..Len(h) :
        /\ \A k \in (Len(h) - t + 1)..Len(h) : h[k] = "W"
        /\ (t = Len(h) \/ h[Len(h) - t] # "W")

IsPrefix(p, h) ==
    /\ Len(p) <= Len(h)
    /\ \A k \in 1..Len(p) : p[k] = h[k]

\* C8: for a valid hypnogram h ending in t W labels and a threshold m >= 0,
\* trim_terminal_wake returns h when t <= m and otherwise the prefix of h of
\* length len(h) - (t - m), which ends in exactly m W labels; the result is
\* always a prefix of h.
C8_TrimPrefix ==
    (op = "trim_terminal_wake" /\ Valid(hypnogram) /\ arg >= 0) =>
        LET t == TrailingW(hypnogram)
        IN  /\ ~ret.raised
            /\ IsPrefix(ret.value, hypnogram)
            /\ (t <= arg => ret.value = hypnogram)
            /\ (t > arg =>
                    /\ Len(ret.value) = Len(hypnogram) - (t - arg)
                    /\ TrailingW(ret.value) = arg)

\* three trailing W labels cut down to one
C8_Witness ==
    /\ op = "trim_terminal_wake"
    /\ arg = 1
    /\ hypnogram = <<"N2", "R", "W", "W", "W">>
    /\ ~ret.raised
    /\ ret.value = <<"N2", "R", "W">>

\* C9: trimming is idempotent: for a valid hypnogram and a threshold >= 0,
\* trimming the trimmed hypnogram again with the same threshold completes
\* and returns the same list.
C9_TrimIdempotent ==
    (op = "trim_terminal_wake_twice" /\ Valid(hypnogram) /\ arg >= 0) =>
        /\ ~ret.raised
        /\ ret.value = prev.value

----------------------------------------------------------------------------
(* Claims about compute_transition_matrix *)

FiveStages == {"W", "N1", "N2", "N3", "R"}

\* the positions k (1-based) whose label is a and whose successor's is b
PairPositions(h, a, b) ==
    {k \in 1..(Len(h) - 1) : h[k] = a /\ h[k + 1] = b}

----------------------------------------------------------------------------
(* Claims about the transition probabilities and the derived metrics *)

\* the stage occurs at a position that has a successor
HasSuccessor(h, stage) == \E k \in 1..(Len(h) - 1) : h[k] = stage

RowOf(m, a) == [k \in 1..Len(STAGE_LABELS) |-> m[a][STAGE_LABELS[k]]]

RowTotal(counts, a) == SumSeq(RowOf(counts, a))

Zero == Frac(0, 1)
One == Frac(1, 1)

Changes(h) == Cardinality({k \in 1..(Len(h) - 1) : h[k] # h[k + 1]})

\* the sum of the cells of a count matrix outside its diagonal
OffDiagonal(counts) ==
    SumSeq([k \in 1..Len(STAGE_LABELS) |->
                RowTotal(counts, STAGE_LABELS[k])
                    - counts[STAGE_LABELS[k]][STAGE_LABELS[k]]])

\* C12: for a valid hypnogram compute_transition_counts, and the
\* Total_Transitions entry of analyze_transitions, is the number of positions
\* k with label[k] # label[k+1]; it is also the sum of the off-diagonal cells
\* of the count matrix and the number of runs of rle_encode minus one.
C12_TransitionCount ==
    /\ (op = "compute_transition_counts" /\ Valid(hypnogram)) =>
        /\ ~ret.raised
        /\ ret.value = Changes(hypnogram)
        /\ ret.value =
             OffDiagonal(compute_transition_matrix(hypnogram).value.counts)
        /\ ret.value = Len(rle_encode(hypnogram).symbols) - 1
    /\ (op = "analyze_transitions" /\ Valid(hypnogram)) =>
        /\ ~ret.raised
        /\ ret.value["Total_Transitions"] = Frac(Changes(hypnogram), 1)

\* the documented example: W W N2 N2 R W has the three changes W -> N2,
\* N2 -> R and R -> W
C12_Witness ==
    /\ op = "compute_transition_counts"
    /\ hypnogram = <<"W", "W", "N2", "N2", "R", "W">>
    /\ ~ret.raised
    /\ ret.value = 3

\* the adjacent pairs that enter W from another stage
ToWake(h) ==
    Cardinality({k \in 1..(Len(h) - 1) : h[k] # "W" /\ h[k + 1] = "W"})

\* C13: for a valid hypnogram compute_transition_to_wake_index is the number
\* of adjacent pairs whose first label is not W and whose second label is W,
\* divided by the number of stage changes; it is 0 when there is no stage
\* change, and it always lies between 0 and 1 inclusive.
C13_ToWakeIndex ==
    (op = "compute_transition_to_wake_index" /\ Valid(hypnogram)) =>
        /\ ~ret.raised
        /\ IF Changes(hypnogram) = 0
           THEN ret.value = Zero
           ELSE ret.value = Frac(ToWake(hypnogram), Changes(hypnogram))
        /\ FracLe(Zero, ret.value)
        /\ FracLe(ret.value, One)

\* one of three changes enters W, and the W -> W pair at the start does not
\* count
C13_Witness ==
    /\ op = "compute_transition_to_wake_index"
    /\ hypnogram = <<"W", "W", "N2", "N2", "R", "W">>
    /\ ~ret.raised
    /\ ret.value = Frac(1, 3)

CompactExamples ==
    { Rep("N2", 20) \o Rep("R", 10),
      Rep("W", 5) \o Rep("N2", 30) \o Rep("R", 15) \o Rep("W", 5) }

\* C15: for a hypnogram made of one long run of N2 followed by one long run
\* of R (20 N2 then 10 R; or 5 W, 30 N2, 15 R, 5 W) compute_sleep_compactness
\* and the Sleep_Compactness entry of analyze_transitions are above 0.9.
C15_CompactExampleAbove09 ==
    hypnogram \in CompactExamples =>
        /\ op = "compute_sleep_compactness" => FracLt(Frac(9, 10), ret.value)
        /\ op = "analyze_transitions" =>
                FracLt(Frac(9, 10), ret.value["Sleep_Compactness"])

\* the keys of the record of analyze_transitions
AnalysisKeys ==
    {"Total_Transitions", "Prob_Wake_Transition", "Sleep_Compactness"}
    \cup {"Persistence_" \o s : s \in FiveStages}
    \cup {"Prob_" \o s \o "_to_W" : s \in FiveStages}
    \cup {"P_" \o a \o "_to_" \o b : a \in FiveStages, b \in FiveStages}

\* C16: for a valid hypnogram analyze_transitions returns one flat record
\* with exactly 38 distinct keys (Total_Transitions, Prob_Wake_Transition,
\* Sleep_Compactness, 5 Persistence_<stage>, 5 Prob_<stage>_to_W and 25
\* P_<from>_to_<to>) whose values agree with each other and with
\* compute_transition_matrix: Persistence_s = P_s_to_s, Prob_s_to_W =
\* P_s_to_W, and P_a_to_b is cell (a, b) of the probability matrix.
C16_AnalysisRecord ==
    (op = "analyze_transitions" /\ Valid(hypnogram)) =>
        /\ ~ret.raised
        /\ DOMAIN ret.value = AnalysisKeys
        /\ Cardinality(DOMAIN ret.value) = 38
        /\ \A s \in FiveStages :
            /\ ret.value["Persistence_" \o s]
                 = ret.value["P_" \o s \o "_to_" \o s]
            /\ ret.value["Prob_" \o s \o "_to_W"]
                 = ret.value["P_" \o s \o "_to_W"]
        /\ \A a \in FiveStages, b \in FiveStages :
             ret.value["P_" \o a \o "_to_" \o b]
                = compute_transition_matrix(hypnogram).value.probs[a][b]

\* a hypnogram whose probability matrix is not symmetric: R always wakes,
\* W never goes to R
C16_Witness ==
    /\ op = "analyze_transitions"
    /\ hypnogram = <<"W", "W", "N2", "N2", "R", "W">>
    /\ ~ret.raised
    /\ ret.value["Prob_R_to_W"] = One
    /\ ret.value["P_W_to_R"] = Zero
    /\ ret.value["Persistence_N2"] = Frac(1, 2)

----------------------------------------------------------------------------
(* Claims about hypnoman *)

\* what is left of h once its trailing W run is cut down to m epochs
TrimmedTo(h, m) ==
    IF TrailingW(h) > m
    THEN SubSeq(h, 1, Len(h) - (TrailingW(h) - m))
    ELSE h

\* the hypnogram the call of hypnoman recorded in the state analyses
Analysed ==
    IF opts.trim_wake THEN TrimmedTo(hypnogram, arg) ELSE hypnogram

\* n epochs of the recorded call, in minutes
Minutes(n) == Frac(n * opts.epoch_duration, 60)

\* the 1-based positions of h that hold a sleep stage
SleepPositions(h) == {k \in 1..Len(h) : h[k] # "W"}

\* the number of epochs before the first epoch of S
EpochsBefore(S) == (CHOOSE k \in S : \A j \in S : k <= j) - 1

\* C17: in hypnoman SOL is the index of the first non-W epoch of the
\* (trimmed) hypnogram in minutes; when the hypnogram is all W, SOL equals
\* TRT, SPT = TRT - SOL is 0, TST is 0, and no error is raised.
C17_SleepOnsetLatency ==
    (op = "hypnoman" /\ Valid(hypnogram)) =>
        /\ ~ret.raised
        /\ ret.value["SPT"] = FracSub(ret.value["TRT"], ret.value["SOL"])
        /\ IF SleepPositions(Analysed) # {}
           THEN ret.value["SOL"] = Minutes(EpochsBefore(SleepPositions(Analysed)))
           ELSE /\ ret.value["SOL"] = ret.value["TRT"]
                /\ ret.value["SOL"] = Minutes(Len(Analysed))
                /\ ret.value["SPT"] = Zero
                /\ ret.value["TST"] = Zero

\* the all-wake example of the tests: 20 W epochs trimmed to 10, which are
\* 5 minutes of recording and of sleep latency
C17_Witness ==
    /\ op = "hypnoman"
    /\ hypnogram = Rep("W", 20)
    /\ opts.trim_wake
    /\ arg = DEFAULT_MAX_WAKE_EPOCHS
    /\ opts.epoch_duration = DEFAULT_EPOCH_DURATION
    /\ ~ret.raised
    /\ ret.value["SOL"] = Frac(5, 1)
    /\ ret.value["TRT"] = Frac(5, 1)
    /\ ret.value["TST"] = Zero

\* the number of epochs of h that hold the stage
EpochsOf(h, stage) == Cardinality({k \in 1..Len(h) : h[k] = stage})

Hundred == Frac(100, 1)

\* C19: for every valid hypnogram and every trimming threshold >= 0 the
\* hypnogram that hypnoman analyses after trimming is non-empty, so TRT > 0
\* and Sleep_efficiency = TST / TRT x 100 is a defined number in [0, 100]; it
\* is above 0 exactly when the hypnogram has a non-W epoch and below 100
\* exactly when the trimmed hypnogram has a W epoch.
C19_EfficiencyDefined ==
    (op = "hypnoman" /\ Valid(hypnogram) /\ arg >= 0) =>
        /\ ~ret.raised
        /\ Len(Analysed) > 0
        /\ FracLt(Zero, ret.value["TRT"])
        /\ IsFinite(ret.value["Sleep_efficiency"])
        /\ ret.value["Sleep_efficiency"]
             = FracMulInt(FracDiv(ret.value["TST"], ret.value["TRT"]), 100)
        /\ FracLe(Zero, ret.value["Sleep_efficiency"])
        /\ FracLe(ret.value["Sleep_efficiency"], Hundred)
        /\ FracLt(Zero, ret.value["Sleep_efficiency"])
             <=> SleepPositions(hypnogram) # {}
        /\ FracLt(ret.value["Sleep_efficiency"], Hundred)
             <=> EpochsOf(Analysed, "W") > 0

\* the 1-based positions of h that hold the stage
PositionsOf(h, stage) == {k \in 1..Len(h) : h[k] = stage}

RunStarts(h, stage) ==
    {k \in 1..Len(h) : h[k] = stage /\ (k = 1 \/ h[k - 1] # stage)}

\* the length of the maximal run of h that starts at position k
RunLengthAt(h, k) ==
    CHOOSE n \in 1..(Len(h) - k + 1) :
        /\ \A j \in k..(k + n - 1) : h[j] = h[k]
        /\ (k + n > Len(h) \/ h[k + n] # h[k])

\* the i-th smallest of the lengths of the runs that start in S
RankedRunLength(h, S, i) ==
    CHOOSE v \in {RunLengthAt(h, k) : k \in S} :
        /\ Cardinality({k \in S : RunLengthAt(h, k) < v}) < i
        /\ Cardinality({k \in S : RunLengthAt(h, k) <= v}) >= i

\* C21: in hypnoman, for each stage that occurs in the (trimmed) hypnogram
\* the longest, mean and median streak are the maximum, mean and median of
\* the lengths of the runs of that stage, in minutes (so mean streak x number
\* of runs = the stage's duration, and longest streak <= the duration); for
\* a stage that never occurs all three are undefined, not 0.
C21_StreakStatistics ==
    (op = "hypnoman" /\ Valid(hypnogram)) =>
        /\ ~ret.raised
        /\ \A stage \in FiveStages :
            LET S == RunStarts(Analysed, stage)
                n == Cardinality(S)
                longest == ret.value[stage \o "_longest_streak"]
                mean == ret.value[stage \o "_mean_length_of_streak"]
                median == ret.value[stage \o "_median_length_of_streak"]
                duration == ret.value[stage \o "_duration"]
                lower == RankedRunLength(Analysed, S, (n + 1) \div 2)
                upper == RankedRunLength(Analysed, S, (n \div 2) + 1)
            IN  IF S = {}
                THEN IsNaN(longest) /\ IsNaN(mean) /\ IsNaN(median)
                ELSE /\ longest = Minutes(RankedRunLength(Analysed, S, n))
                     /\ mean = Frac(EpochsOf(Analysed, stage)
                                        * opts.epoch_duration, 60 * n)
                     /\ median = Frac((lower + upper) * opts.epoch_duration,
                                      2 * 60)
                     /\ FracMulInt(mean, n) = duration
                     /\ FracLe(longest, duration)

\* two runs of N2, of 1 and 2 epochs of 30 s: the mean and the median streak
\* are 3/4 of a minute, the longest is 1 minute, and R has no streak
C21_Witness ==
    /\ op = "hypnoman"
    /\ hypnogram = <<"N2", "W", "N2", "N2", "W">>
    /\ opts.epoch_duration = 30
    /\ ~opts.trim_wake
    /\ ~ret.raised
    /\ ret.value["N2_mean_length_of_streak"] = Frac(3, 4)
    /\ ret.value["N2_median_length_of_streak"] = Frac(3, 4)
    /\ ret.value["N2_longest_streak"] = One
    /\ IsNaN(ret.value["R_longest_streak"])


----------------------------------------------------------------------------
(* Claims about the label / code conversions *)

\* the documented mapping, as (label, code) pairs
StageCodePairs ==
    {<<"W", 0>>, <<"N1", 1>>, <<"N2", 2>>, <<"N3", 3>>, <<"R", 4>>}

\* labels and codes correspond position by position under the mapping
Corresponds(labels, codes) ==
    /\ Len(labels) = Len(codes)
    /\ \A k \in 1..Len(labels) : <<labels[k], codes[k]>> \in StageCodePairs

\* both directions use the mapping W=0, N1=1, N2=2, N3=3, R=4, and encoding
\* a valid hypnogram and decoding the result gives the hypnogram back
CodecForward ==
    /\ op = "convert_to_numeric" =>
            IF Valid(hypnogram)
            THEN ~ret.raised /\ Corresponds(hypnogram, ret.value)
            ELSE IsValidationError(ret)
    /\ op = "convert_to_labels" =>
            IF \A k \in 1..Len(arg) : arg[k] \in 0..4
            THEN ~ret.raised /\ Corresponds(ret.value, arg)
            ELSE ret.raised /\ ret.error = "KeyError"
    /\ op = "convert_to_labels(convert_to_numeric)" =>
            ~ret.raised /\ ret.value = hypnogram

\* C22: convert_to_labels(convert_to_numeric(h)) = h for every valid
\* hypnogram h, and convert_to_numeric(convert_to_labels(c)) = c for every
\* NON-EMPTY sequence c of codes in 0..4 (convert_to_labels accepts exactly
\* the sequences of such codes); the mapping is W=0, N1=1, N2=2, N3=3, R=4
\* in both directions.
C22_CodecRoundTrip ==
    /\ CodecForward
    /\ (op = "convert_to_numeric(convert_to_labels)" /\ arg # <<>>) =>
            ~ret.raised /\ ret.value = arg

\* a non-empty code sequence decoded and encoded again
C22_Witness ==
    /\ op = "convert_to_numeric(convert_to_labels)"
    /\ arg = <<0, 1, 2, 3, 4>>
    /\ prev = Return(<<"W", "N1", "N2", "N3", "R">>)
    /\ ret = Return(arg)

\* C22 as stated: the round trip from codes holds for every sequence of
\* codes that convert_to_labels accepts, the empty one included
C22_AsStated ==
    /\ CodecForward
    /\ op = "convert_to_numeric(convert_to_labels)" =>
            ~ret.raised /\ ret.value = arg


----------------------------------------------------------------------------
(* Claims about the batch script *)

\* the row merged by the last iteration that appended one
LastMerged == masterlist[Len(masterlist)]

\* C23: the key sets of the records of hypnoman and analyze_transitions are
\* disjoint and neither holds 'fname', so the merged record with the
\* identifier has as many keys as the two records together plus one, and
\* every value of either record is in it unchanged.
C23_MergeDisjoint ==
    masterlist # <<>> =>
        /\ Columns(sleep_params) = HypnomanColumns
        /\ Columns(trans_params) = AnalysisKeys
        /\ Columns(sleep_params) \cap Columns(trans_params) = {}
        /\ "fname" \notin Columns(sleep_params) \cup Columns(trans_params)
        /\ Len(LastMerged) = Len(sleep_params) + Len(trans_params) + 1
        /\ Cardinality(Columns(LastMerged))
                = Cardinality(Columns(sleep_params))
                    + Cardinality(Columns(trans_params)) + 1
        /\ \A k \in 1..Len(sleep_params) : LastMerged[k] = sleep_params[k]
        /\ \A k \in 1..Len(trans_params) :
                LastMerged[Len(sleep_params) + k] = trans_params[k]
        /\ LastMerged[Len(LastMerged)].column = "fname"

\* the second file of three was merged: 38 + 38 + 1 columns
C23_Witness ==
    /\ Len(filelist) = 3
    /\ file_no = 2
    /\ Len(masterlist) = 1
    /\ Len(sleep_params) = 38
    /\ Len(trans_params) = 38
    /\ Len(LastMerged) = 77
    /\ LastMerged[77] = [column |-> "fname", value |-> "subject02"]
    /\ LastMerged[2] = [column |-> "TST", value |-> Frac(3, 2)]


\* the line printed when the loop turns to the k-th file, and the line that
\* tells what became of it
HeadLine(k) ==
    "[" \o Str(k) \o "/" \o Str(Len(filelist)) \o "] Processing: "
        \o BaseName(k)
FateLine(k) == printed[2 * k + 1]

\* the lines that record a failure
ErrorLines ==
    {"  [ERROR] Could not process file: " \o m :
        m \in {"cannot read", "cannot write", "Hypnogram cannot be empty"}}
SkipLine == "  [WARNING] Skipped: file contains non-sleep stage labels"

\* the files visited so far whose iteration ended without an error
Succeeded == {k \in 1..file_no : FateLine(k) = "  Sleep parameters calculated"}

\* the j-th of them, in file order
NthSucceeded(j) ==
    CHOOSE k \in Succeeded : Cardinality({i \in Succeeded : i <= k}) = j

\* the identifier stored in a merged row
FnameOf(row) == row[Len(row)].value

\* the loop is at, or past, its first iteration
InLoop == pc \in {"loop", "done", "raised"}

\* what the batch has recorded after file_no files: a head line and a fate
\* line for each file visited, a failure line for each file that cannot be
\* analysed, and one merged row, in file order, for each file that succeeded
BatchRecord ==
    InLoop =>
        /\ file_no \in 0..Len(filelist)
        /\ Len(printed) >= 1 + 2 * file_no
        /\ pc # "loop" => file_no = Len(filelist)
        /\ \A k \in 1..file_no :
            /\ printed[2 * k] = HeadLine(k)
            /\ IF k \in Succeeded
               THEN filelist[k].read = "list" /\ Valid(filelist[k].stages)
               ELSE IF filelist[k].read = "None"
               THEN FateLine(k) = SkipLine
               ELSE FateLine(k) \in ErrorLines
            /\ (filelist[k].read = "list" /\ ~Valid(filelist[k].stages))
                    => FateLine(k) \in ErrorLines
        /\ Len(masterlist) = Cardinality(Succeeded)
        /\ \A j \in 1..Len(masterlist) :
                FnameOf(masterlist[j]) = BaseName(NthSucceeded(j))

\* one step of the loop: the next file of the list is taken and the loop
\* goes on, whatever happened to the file; the results keep every row they
\* had and gain at most one, at the end
BatchStep ==
    /\ file_no' \in {file_no, file_no + 1}
    /\ (pc = "loop" /\ file_no < Len(filelist)) =>
            (file_no' = file_no + 1 /\ pc' = "loop")
    /\ Len(masterlist') \in {Len(masterlist), Len(masterlist) + 1}
    /\ \A j \in 1..Len(masterlist) : masterlist'[j] = masterlist[j]

\* C26: an error in one file, or a file skipped as invalid, never aborts
\* the batch: every file of the list is eventually visited, once and in list
\* order; the results only grow by appending and hold exactly one merged row
\* per file processed without error, in file order; the failure of each
\* failed file is recorded with the file.
C26_BatchNeverAborts ==
    /\ [][BatchStep]_vars
    /\ [](BatchRecord)
    /\ (pc = "start" /\ filelist # <<>>)
            ~> (pc \in {"done", "raised"} /\ file_no = Len(filelist))

\* three files: the first cannot be read, the second is analysed, the third
\* is skipped; the batch ends with the row of the second
C26_Witness ==
    /\ pc = "done"
    /\ Len(filelist) = 3
    /\ file_no = 3
    /\ filelist[1].read = "raise"
    /\ filelist[3].read = "None"
    /\ FateLine(1) = "  [ERROR] Could not process file: cannot read"
    /\ FateLine(3) = SkipLine
    /\ Len(masterlist) = 1
    /\ FnameOf(masterlist[1]) = "subject02"
    /\ Len(master_df) = 1
    /\ master_df[1][1] = [column |-> "fname", value |-> "subject02"]


----------------------------------------------------------------------------
(* Claims about the documented row sums of the probability matrix *)

\* the stage occurs somewhere in h
Occurs(h, stage) == \E k \in 1..Len(h) : h[k] = stage

\* C24: for a valid hypnogram the row of every stage that occurs anywhere in
\* the hypnogram sums to 1, and a row sums to 0 only for a stage that does
\* not occur in the hypnogram at all.
C24_RowSumsByOccurrence ==
    (op = "compute_transition_matrix" /\ Valid(hypnogram)) =>
        /\ ~ret.raised
        /\ \A a \in FiveStages :
            LET total == FracSum(RowOf(ret.value.probs, a))
            IN  /\ Occurs(hypnogram, a) => total = One
                /\ total = Zero => ~Occurs(hypnogram, a)


----------------------------------------------------------------------------
(* Claims about repeated calls *)

\* the call made last is the call the caller made first
SameCallAgain ==
    /\ prev # NoCall
    /\ op = prev.op
    /\ arg = prev.arg
    /\ opts = prev.opts

----------------------------------------------------------------------------
(* Claims about the incremental scans of the cycle detectors *)

\* a returned stretch starts right after an epoch of one of the stages in S
StartsLate(h, indices, S) ==
    \E k \in 1..Len(indices) :
        indices[k][1] > 0 /\ At(h, indices[k][1] - 1) \in S

\* C27: for every valid hypnogram and every min_rem_epochs >= 0 the scan of
\* find_rem_stretches agrees with maximal-run semantics on where a stretch
\* starts: NO returned REM stretch starts at an index whose preceding epoch is
\* also R.  A candidate that fails the length check fails it again one epoch
\* later, because the rest of the run is shorter still.
C27_RemStartsAtRunStart ==
    (op = "find_rem_stretches" /\ Valid(hypnogram)) =>
        /\ ~ret.raised
        /\ ~StartsLate(hypnogram, ret.value.indices, {"R"})

\* the run R R at the end fails the check for 3 epochs at index 2 and again,
\* one epoch later, at index 3; only the first REM period is returned
C27_Witness ==
    /\ op = "find_rem_stretches"
    /\ hypnogram = <<"R", "W", "R", "R">>
    /\ arg = 3
    /\ ret = Return([stretches |-> <<<<"R">>>>, indices |-> <<<<0, 0>>>>])

\* C27 as stated: some valid hypnogram and some min_rem_epochs make
\* find_rem_stretches return a REM stretch that starts one epoch late, at an
\* index whose preceding epoch is also R
C27_AsStated ==
    op = "none" =>
        \E h \in {x \in Inputs : Valid(x)}, m \in RemParams :
            LET r == find_rem_stretches(h, m)
            IN  ~r.raised /\ StartsLate(h, r.value.indices, {"R"})


\* index i is a qualifying start: an N2 followed by enough NREM epochs that
\* the window of m epochs from i exists and is all NREM
QualifyingStart(h, m, i) ==
    /\ i + m <= Len(h)
    /\ At(h, i) = "N2"
    /\ \A k \in i..(i + m - 1) : At(h, k) \in NREM

\* the 0-based positions of the NREM epochs of h
NremPositions(h) == {k \in 0..(Len(h) - 1) : At(h, k) \in NREM}

\* the NREM epochs of h are one run of N2 of at least m epochs
SingleN2Run(h, m) ==
    LET P == NremPositions(h)
    IN  /\ Cardinality(P) >= m
        /\ P # {}
        /\ \A k \in P : At(h, k) = "N2"
        /\ SetMax(P) - SetMin(P) + 1 = Cardinality(P)

\* C28: for a valid hypnogram and min_nrem_epochs >= 1, every index with an
\* N2 whose window of min_nrem_epochs epochs exists and is all NREM lies
\* inside a returned index range; when the only NREM epochs are one run of N2
\* of at least min_nrem_epochs epochs, exactly one stretch is returned and it
\* is that run.
C28_NoQualifyingStartMissed ==
    (op = "find_nremstretches" /\ Valid(hypnogram) /\ arg >= 1) =>
        /\ ~ret.raised
        /\ \A i \in 0..(Len(hypnogram) - 1) :
                QualifyingStart(hypnogram, arg, i) =>
                    \E r \in 1..Len(ret.value.indices) :
                        /\ ret.value.indices[r][1] <= i
                        /\ i <= ret.value.indices[r][2]
        /\ SingleN2Run(hypnogram, arg) =>
                LET P == NremPositions(hypnogram)
                IN  /\ ret.value.indices = <<<<SetMin(P), SetMax(P)>>>>
                    /\ ret.value.stretches = <<Rep("N2", Cardinality(P))>>

\* W, 31 N2, R, W with the default of 30 epochs: one stretch, from the first
\* N2 (index 1) to the last (index 31)
C28_Witness ==
    /\ op = "find_nremstretches"
    /\ hypnogram = <<"W", "N2">> \o Rep("N2", 30) \o <<"R", "W">>
    /\ arg = DEFAULT_MIN_NREM_EPOCHS
    /\ ~ret.raised
    /\ ret.value.indices = <<<<1, 31>>>>


----------------------------------------------------------------------------
(* Claims about the order of the time columns *)

\* the W epochs of h after its first epoch that is not W
WakeAfterOnset(h) ==
    Cardinality({k \in 1..Len(h) :
                    h[k] = "W" /\ \E j \in 1..(k - 1) : h[j] # "W"})

\* C29: for every valid hypnogram hypnoman's columns satisfy
\* 0 <= TST <= SPT <= TRT and 0 <= SOL <= TRT, and WASO = SPT - TST is not
\* negative and is the number of W epochs after the first non-W epoch of the
\* (trimmed) hypnogram, in minutes (up to rounding); WASO is 0 for an all-W
\* hypnogram.
C29_TimeOrdering ==
    (op = "hypnoman_binary64" /\ Valid(hypnogram)) =>
        /\ ~ret.raised
        /\ B64Le(B64Zero, ret.value.TST)
        /\ B64Le(ret.value.TST, ret.value.SPT)
        /\ B64Le(ret.value.SPT, ret.value.TRT)
        /\ B64Le(B64Zero, ret.value.SOL)
        /\ B64Le(ret.value.SOL, ret.value.TRT)
        /\ ret.value.WASO = B64Sub(ret.value.SPT, ret.value.TST)
        /\ B64Le(B64Zero, ret.value.WASO)
        /\ B64Near(ret.value.WASO,
                   epochs_to_minutes_binary64(WakeAfterOnset(Analysed),
                                              opts.epoch_duration))
        /\ SleepPositions(Analysed) = {} => ret.value.WASO = B64Zero


\* the scan state of find_nremstretches / find_rem_stretches on the recorded
\* hypnogram after k tests of the loop condition
NremScanAfter(k) == NremLoop(hypnogram, arg, ScanInit, k)
RemScanAfter(k) == RemLoop(hypnogram, arg, ScanInit, k)

\* C30: for every valid hypnogram of n epochs and every minimum >= 0 the
\* scan loops of find_nremstretches and find_rem_stretches run to completion:
\* the index grows at every iteration, only positions 0..n-1 are read, and
\* the loop has ended after at most n iterations with the index at most n.
C30_ScansComplete ==
    LET n == Len(hypnogram)
    IN  /\ (op = "find_nremstretches" /\ Valid(hypnogram) /\ arg >= 0) =>
            /\ ~ret.raised
            /\ ~NremCond(hypnogram, arg, NremScanAfter(n))
            /\ \A k \in 0..n :
                LET st == NremScanAfter(k)
                IN  /\ ~st.raised
                    /\ st.i <= n
                    /\ NremCond(hypnogram, arg, st) =>
                        /\ st.i <= n - 1
                        /\ NremIter(hypnogram, arg, st).i > st.i
        /\ (op = "find_rem_stretches" /\ Valid(hypnogram) /\ arg >= 0) =>
            /\ ~ret.raised
            /\ ~RemCond(hypnogram, RemScanAfter(n))
            /\ \A k \in 0..n :
                LET st == RemScanAfter(k)
                IN  /\ ~st.raised
                    /\ st.i <= n
                    /\ RemCond(hypnogram, st) =>
                        /\ st.i <= n - 1
                        /\ RemIter(hypnogram, arg, st).i > st.i

====
